---- MODULE Spec2Model ----
(***************************************************************************)
(* A model of the request lifecycle engine of curly.hpp                    *)
(* (sources/curly.hpp/curly.cpp): request::internal_state, the submission  *)
(* queue new_handles, the registry active_handles, the three locked        *)
(* sections of perform() and cancel_all_pending_requests().                *)
(*                                                                         *)
(* Threads run perform() and cancel_all_pending_requests() step by step;   *)
(* one step is one call that takes the request mutex or the queue mutex.   *)
(* Calls on a request handle (cancel, take, wait, ...) are single steps,   *)
(* each of them runs under the request mutex.  libcurl is the environment: *)
(* inside curl_multi_perform it may call the read, write, header and      *)
(* progress trampolines of a running transfer and may finish the transfer. *)
(*                                                                         *)
(* Not modelled: memory exhaustion (the catch branches of fail and cancel, *)
(* which only std::string::assign can reach) and a failing                 *)
(* curl_multi_perform.                                                     *)
(***************************************************************************)
EXTENDS Integers, Sequences, FiniteSets, TLC

\* ------------------------------------------------------------------ bounds
MaxReqs == 2          \* requests ever sent
MaxThreads == 2       \* threads calling perform / cancel_all_pending_requests
MaxActivity == 1      \* callbacks the transport delivers before it falls silent
MaxTimeout == 1       \* largest response_timeout a builder is given
MaxIdle == MaxTimeout \* the clock is followed up to this many units of silence
MaxBytes == 1         \* largest byte count the transport reports to progress
DataReqs == 1         \* requests sent where the transport's callbacks are followed
Scale == 2            \* progress_ is stored in units of 1/Scale
MaxLines == 3         \* header lines delivered where the headers are followed
MaxLead == 2          \* whitespace characters before the value of a header line
MaxValue == 2         \* characters of the value of a header line
MaxParams == 3        \* calls of qparam on a builder
MaxHeaders == 2       \* calls of header on a builder

Reqs == 1..MaxReqs
Threads == 1..MaxThreads
NoThread == 0
NoReq == 0

Min(a, b) == IF a < b THEN a ELSE b
Max(a, b) == IF a > b THEN a ELSE b

\* ------------------------------------------------------------- vocabulary
Statuses == {"done", "empty", "failed", "timeout", "pending", "cancelled"}

CURLE_OK == "CURLE_OK"
CURLE_FAILED_INIT == "CURLE_FAILED_INIT"
CURLE_COULDNT_CONNECT == "CURLE_COULDNT_CONNECT"
CURLE_WRITE_ERROR == "CURLE_WRITE_ERROR"
CURLE_READ_ERROR == "CURLE_READ_ERROR"
CURLE_OPERATION_TIMEDOUT == "CURLE_OPERATION_TIMEDOUT"
CURLE_ABORTED_BY_CALLBACK == "CURLE_ABORTED_BY_CALLBACK"

\* result codes a finished transfer is reported with
TransferResults ==
    {CURLE_OK, CURLE_COULDNT_CONNECT, CURLE_OPERATION_TIMEDOUT, CURLE_WRITE_ERROR}

\* what libcurl left in the error buffer of a failed transfer
ErrorTexts == {"", "curl: transfer failed"}

\* header lines the transport delivers: a status line or a "key: value" line
HeaderKeys == {"Content-Type", "Location"}
BlankLine == "\r\n"
HeaderLines == {"HTTP/", BlankLine} \cup HeaderKeys

\* values curl passes to the progress trampoline (curl_off_t, may be negative)
OffT == -1..MaxBytes

\* values a user progressor may return, in units of 1/Scale
UserProgress == {0 - 1, 1, Scale + 1}

\* the builders send() is called on: callback, response_timeout, and the
\* three handlers (the defaults of the internal_state constructor or a user's)
Builders ==
    { [callback |-> FALSE, response_timeout |-> MaxTimeout, progressor |-> "default",
       uploader |-> "default", downloader |-> "default"],
      [callback |-> TRUE, response_timeout |-> 0, progressor |-> "user",
       uploader |-> "user", downloader |-> "user"] }

\* the value libcurl takes as "abort" from a read callback
CURL_READFUNC_ABORT == 268435456

NoResponse == [present |-> FALSE, content |-> 0, headers |-> {}]

VARIABLES
    req,             \* request::internal_state of every request
    nsent,           \* number of requests constructed by send()
    new_handles,     \* mt_queue<req_state_t> new_handles
    active_handles,  \* std::vector<req_state_t> active_handles
    mutex,           \* curl_state::mutex_: the thread holding it, or NoThread
    pc,              \* position of every thread
    sreq,            \* the request a thread is working on (sreq / *iter)
    iter,            \* index into active_handles of the thread in the engine
    now_since,       \* phase 2: elapsed silence per request when `now` was read
    transfer,        \* libcurl: state of the easy handle of every request
    msgs,            \* libcurl: queue of CURLMSG_DONE messages <<request, result>>
    activity,        \* libcurl: number of callbacks delivered so far
    assert_failed,   \* the assertion of call_callback failed at least once
    builder,         \* a request_builder a client is filling in
    out,             \* what the last call of a parsing or composing function gave
    dst,             \* per thread: the vector get_all_pending_requests fills
    harvest          \* phase 3 under way: the registry it found, the requests
                     \* it has visited, and those pending when visited

vars == <<req, nsent, new_handles, active_handles, mutex, pc, sreq, iter,
          now_since, transfer, msgs, activity, assert_failed, builder, out, dst,
          harvest>>

\* ---------------------------------------------------- internal_state

\* internal_state(request_builder&&): the fields as constructed
internal_state(rb) ==
    [ breq_callback |-> rb.callback,
      breq_response_timeout |-> rb.response_timeout,
      breq_progressor |-> rb.progressor,
      breq_uploader |-> rb.uploader,
      breq_downloader |-> rb.downloader,
      curlh_ |-> FALSE,
      since_last_response |-> 0,
      response_timeout_ |-> 0,
      response_ |-> NoResponse,
      response_headers_ |-> {},
      response_content_ |-> 0,
      callbacked_ |-> FALSE,
      callback_exception_ |-> FALSE,
      progress_ |-> 0,
      status_ |-> "pending",
      error_ |-> "Unknown error",
      error_buffer_ |-> "",
      taken |-> 0,
      header_lines |-> <<>>,
      calls |-> 0 ]

\* an enqueue that takes the configured response timeout as it is
enqueue_uncoerced(s) ==
    [s EXCEPT !.curlh_ = TRUE,
              !.since_last_response = 0,
              !.response_timeout_ = s.breq_response_timeout]

\* enqueue(curlm), the path that returns normally
enqueue(s) ==
    [s EXCEPT !.curlh_ = TRUE,
              !.since_last_response = 0,
              !.response_timeout_ = Max(1, s.breq_response_timeout)]

\* enqueue(curlm) throwing: "init" before an easy handle exists,
\* "add" in curl_multi_add_handle, after everything was configured
enqueue_throw(s, where) ==
    IF where = "init" THEN s
    ELSE [s EXCEPT !.curlh_ = TRUE,
                   !.since_last_response = 0,
                   !.response_timeout_ = Max(1, s.breq_response_timeout)]

\* a dequeue that leaves the easy handle in place
dequeue_keeps_handle(s) == s

\* dequeue(curlm)
dequeue(s) ==
    [s EXCEPT !.curlh_ = FALSE, !.since_last_response = 0]

\* done() that leaves the error message as it was
done_keeps_error(s, info_ok) ==
    IF s.status_ # "pending" THEN s
    ELSE IF ~info_ok THEN [s EXCEPT !.status_ = "failed"]
    ELSE [s EXCEPT !.response_ = [present |-> TRUE,
                                  content |-> s.response_content_,
                                  headers |-> s.response_headers_],
                   !.response_content_ = 0,
                   !.response_headers_ = {},
                   !.progress_ = Scale,
                   !.status_ = "done"]

\* done() without the test for pending
done_unguarded(s, info_ok) ==
    IF ~info_ok THEN [s EXCEPT !.status_ = "failed"]
    ELSE [s EXCEPT !.response_ = [present |-> TRUE,
                                  content |-> s.response_content_,
                                  headers |-> s.response_headers_],
                   !.progress_ = Scale,
                   !.status_ = "done",
                   !.error_ = ""]

\* done(): info_ok is false when curl_easy_getinfo gives no URL or no code,
\* or when building the response throws
done(s, info_ok) ==
    IF s.status_ # "pending" THEN s
    ELSE IF ~info_ok THEN [s EXCEPT !.status_ = "failed"]
    ELSE [s EXCEPT !.response_ = [present |-> TRUE,
                                  content |-> s.response_content_,
                                  headers |-> s.response_headers_],
                   !.response_content_ = 0,
                   !.response_headers_ = {},
                   !.progress_ = Scale,
                   !.status_ = "done",
                   !.error_ = ""]

\* done(): the value it returns
done_result(s, info_ok) == s.status_ = "pending" /\ info_ok

\* fail(err) that lets the idle timeout through the test for pending
fail_timeout_overrides(s, err) ==
    IF s.status_ # "pending" /\ err # CURLE_OPERATION_TIMEDOUT THEN s
    ELSE CASE err = CURLE_OPERATION_TIMEDOUT ->
                [s EXCEPT !.status_ = "timeout", !.error_ = "Operation timeout"]
           [] err \in {CURLE_READ_ERROR, CURLE_WRITE_ERROR, CURLE_ABORTED_BY_CALLBACK} ->
                [s EXCEPT !.status_ = "cancelled", !.error_ = "Callback aborted"]
           [] OTHER ->
                [s EXCEPT !.status_ = "failed",
                          !.error_ = IF s.error_buffer_ # "" THEN s.error_buffer_
                                     ELSE "Unknown error"]

\* fail(err) that also acts on a request that is done
fail_overrides_done(s, err) ==
    IF s.status_ \notin {"pending", "done"} THEN s
    ELSE CASE err = CURLE_OPERATION_TIMEDOUT ->
                [s EXCEPT !.status_ = "timeout", !.error_ = "Operation timeout"]
           [] err \in {CURLE_READ_ERROR, CURLE_WRITE_ERROR, CURLE_ABORTED_BY_CALLBACK} ->
                [s EXCEPT !.status_ = "cancelled", !.error_ = "Callback aborted"]
           [] OTHER ->
                [s EXCEPT !.status_ = "failed",
                          !.error_ = IF s.error_buffer_ # "" THEN s.error_buffer_
                                     ELSE "Unknown error"]

\* fail(err) that never reads the error buffer
fail_unknown(s, err) ==
    IF s.status_ # "pending" THEN s
    ELSE CASE err = CURLE_OPERATION_TIMEDOUT ->
                [s EXCEPT !.status_ = "timeout", !.error_ = "Operation timeout"]
           [] err \in {CURLE_READ_ERROR, CURLE_WRITE_ERROR, CURLE_ABORTED_BY_CALLBACK} ->
                [s EXCEPT !.status_ = "cancelled", !.error_ = "Callback aborted"]
           [] OTHER ->
                [s EXCEPT !.status_ = "failed", !.error_ = "Unknown error"]

\* fail(err) without the test for pending
fail_unguarded(s, err) ==
    CASE err = CURLE_OPERATION_TIMEDOUT ->
            [s EXCEPT !.status_ = "timeout", !.error_ = "Operation timeout"]
      [] err \in {CURLE_READ_ERROR, CURLE_WRITE_ERROR, CURLE_ABORTED_BY_CALLBACK} ->
            [s EXCEPT !.status_ = "cancelled", !.error_ = "Callback aborted"]
      [] OTHER ->
            [s EXCEPT !.status_ = "failed",
                      !.error_ = IF s.error_buffer_ # "" THEN s.error_buffer_
                                 ELSE "Unknown error"]

\* fail(err)
fail(s, err) ==
    IF s.status_ # "pending" THEN s
    ELSE CASE err = CURLE_OPERATION_TIMEDOUT ->
                [s EXCEPT !.status_ = "timeout", !.error_ = "Operation timeout"]
           [] err \in {CURLE_READ_ERROR, CURLE_WRITE_ERROR, CURLE_ABORTED_BY_CALLBACK} ->
                [s EXCEPT !.status_ = "cancelled", !.error_ = "Callback aborted"]
           [] OTHER ->
                [s EXCEPT !.status_ = "failed",
                          !.error_ = IF s.error_buffer_ # "" THEN s.error_buffer_
                                     ELSE "Unknown error"]

\* fail(err): the value it returns
fail_result(s) == s.status_ = "pending"

\* a cancel() that also releases the transport handle
cancel_detaches(s) ==
    IF s.status_ # "pending" THEN s
    ELSE [s EXCEPT !.status_ = "cancelled", !.error_ = "Operation cancelled",
                   !.curlh_ = FALSE]

\* cancel() without the test for pending
cancel_unguarded(s) ==
    [s EXCEPT !.status_ = "cancelled", !.error_ = "Operation cancelled"]

\* cancel(): the state it leaves
cancel(s) ==
    IF s.status_ # "pending" THEN s
    ELSE [s EXCEPT !.status_ = "cancelled", !.error_ = "Operation cancelled"]

\* cancel(): the value it returns
cancel_result(s) == s.status_ = "pending"

\* a wait that does not look at callbacked_
wait_ready_ignores_callback(s, wait_callback) == s.status_ # "pending"

\* a wait that returns at once
wait_ready_at_once(s, wait_callback) == TRUE

\* the predicate wait(wait_callback) blocks on
wait_ready(s, wait_callback) ==
    (s.status_ # "pending") /\ (~wait_callback \/ s.callbacked_)

\* wait(wait_callback): the value it returns once wait_ready holds
wait(s) == s.status_

\* a timed wait whose predicate does not look at callbacked_
wait_for_ready_ignores_callback(s, wait_callback) == s.status_ # "pending"

\* the predicate wait_for(ms, wait_callback) and wait_until(tp, wait_callback)
\* block on until the deadline, and the value they return
wait_for_ready(s, wait_callback) ==
    (s.status_ # "pending") /\ (~wait_callback \/ s.callbacked_)

wait_for(s) == s.status_

\* get_error(): the predicate it blocks on, and its value
get_error_ready(s) == s.status_ # "pending"
get_error(s) == s.error_

\* take(): whether the call returns the response (or throws)
take_returns(s) == s.status_ = "done"

\* take() that hands the response out and leaves the status done
take_keeps_done(s) ==
    IF s.status_ # "done" THEN s
    ELSE [s EXCEPT !.taken = Min(s.taken + 1, 2)]

\* take() without the test for done: whatever the status, it becomes empty
take_always_empties(s) ==
    [s EXCEPT !.status_ = "empty", !.response_ = NoResponse]

\* take(): the state it leaves, once status_ is no longer pending
take(s) ==
    IF s.status_ # "done" THEN s
    ELSE [s EXCEPT !.status_ = "empty",
                   !.response_ = NoResponse,
                   !.taken = Min(s.taken + 1, 2)]

\* a timeout check that never reports
check_response_timeout_never(s, since) == FALSE

\* check_response_timeout(now), with now - last_response_ given as `since`
check_response_timeout(s, since) == since >= s.response_timeout_

\* get_callback_exception(): the predicate it blocks on, and its value
get_callback_exception_ready(s) == s.callbacked_
get_callback_exception(s) == s.callback_exception_

\* a call_callback that a throwing user callback leaves before the tail
call_callback_unwinds(s, exc) ==
    [s EXCEPT !.callback_exception_ = s.callback_exception_ \/ exc,
              !.callbacked_ = ~exc,
              !.calls = Min(s.calls + 1, 2)]

\* call_callback(), the locked tail: exc tells whether the user callback threw
call_callback(s, exc) ==
    [s EXCEPT !.callback_exception_ = s.callback_exception_ \/ exc,
              !.callbacked_ = TRUE,
              !.calls = Min(s.calls + 1, 2)]

\* the assertion of call_callback
call_callback_assert(s) == ~s.callbacked_ /\ s.status_ # "pending"

\* upload_callback_ up to the call of the uploader: last_response_ is set
upload_callback_(s, size) ==
    [s EXCEPT !.since_last_response = 0]

\* what upload_callback_ returns: the bytes read, or the abort value when
\* the uploader threw
upload_callback_ret(thrown, size) ==
    IF thrown THEN CURL_READFUNC_ABORT ELSE size

\* download_callback_: last_response_ is set, then the downloader writes
\* (default_downloader appends to response_content_; a user's downloader
\* keeps the bytes elsewhere, and a throwing one wrote nothing)
download_callback_(s, size, thrown) ==
    [s EXCEPT !.since_last_response = 0,
              !.response_content_ =
                  IF s.breq_downloader = "default" /\ ~thrown
                  THEN s.response_content_ + size ELSE s.response_content_]

\* a download_callback_ that reports the bytes as written after a throw
download_callback_ret_size(thrown, size) == size

\* what download_callback_ returns: the bytes written, or 0 when the
\* downloader threw
download_callback_ret(thrown, size) ==
    IF thrown THEN 0 ELSE size

\* what progress_callback returns: 0, or 1 when the progressor threw
progress_callback_ret(thrown) ==
    IF thrown THEN 1 ELSE 0

\* the result code with which libcurl ends a transfer whose callback
\* returned ret (CURLE_OK: the transfer goes on); size is the number of
\* bytes libcurl handed to a write callback
abort_result(kind, ret, size) ==
    CASE kind = "upload" /\ ret = CURL_READFUNC_ABORT -> CURLE_ABORTED_BY_CALLBACK
      [] kind = "download" /\ ret # size -> CURLE_WRITE_ERROR
      [] kind = "progress" /\ ret # 0 -> CURLE_ABORTED_BY_CALLBACK
      [] OTHER -> CURLE_OK

\* a header_callback_ that keeps the headers of earlier responses
header_callback_keeps(s, line) ==
    [s EXCEPT !.since_last_response = 0,
              !.response_headers_ =
                  IF line \in HeaderKeys THEN s.response_headers_ \cup {line}
                  ELSE s.response_headers_,
              !.header_lines = Append(s.header_lines, line)]

\* header_callback_, on the key of the line (or the status line);
\* header_lines records the lines delivered so far
header_callback_(s, line) ==
    [s EXCEPT !.since_last_response = 0,
              !.response_headers_ =
                  IF line = "HTTP/" THEN {}
                  ELSE IF line \in HeaderKeys THEN s.response_headers_ \cup {line}
                  ELSE s.response_headers_,
              !.header_lines = Append(s.header_lines, line)]

\* ---------------------------------------------------------- mt_queue

\* an enqueue that puts the value at the head
mt_queue_enqueue_front(deque_, v) == <<v>> \o deque_

\* mt_queue::enqueue: deque_.push_back(v)
mt_queue_enqueue(deque_, v) == Append(deque_, v)

\* mt_queue::try_dequeue on a non-empty queue: v = deque_.front(), then
\* deque_.pop_front()
mt_queue_front(deque_) == Head(deque_)
mt_queue_pop_front(deque_) == Tail(deque_)

\* a copy that puts the queue before what the container holds
mt_queue_copy_to_front(deque_, container) == deque_ \o container

\* mt_queue::copy_to: container.insert(container.end(), deque_.begin(),
\* deque_.end())
mt_queue_copy_to(deque_, container) == container \o deque_

\* ------------------------------------------------ strings (of characters)

\* std::string_view::npos
npos == -1

\* std::string_view::find_first_not_of / find_last_not_of / find (0-based)
find_first_not_of(str, chars) ==
    LET I == {i \in 1..Len(str) : str[i] \notin chars}
    IN  IF I = {} THEN npos ELSE (CHOOSE i \in I : \A j \in I : i <= j) - 1

find_last_not_of(str, chars) ==
    LET I == {i \in 1..Len(str) : str[i] \notin chars}
    IN  IF I = {} THEN npos ELSE (CHOOSE i \in I : \A j \in I : i >= j) - 1

find(str, c) == find_first_not_of(str, {str[i] : i \in 1..Len(str)} \ {c})

\* std::string_view::substr(pos, count) and substr(pos)
substr(str, pos, count) == SubSeq(str, pos + 1, Min(pos + count, Len(str)))
substr_from(str, pos) == SubSeq(str, pos + 1, Len(str))

\* header_callback_ on the characters of one line: what it does to
\* response_headers_ (clear it, emplace key and value, or nothing)
header_line(header) ==
    IF substr(header, 0, 5) = <<"H", "T", "T", "P", "/">> THEN [do |-> "clear"]
    ELSE LET sep_idx == find(header, ":")
         IN  IF sep_idx = npos \/ sep_idx = 0 THEN [do |-> "nothing"]
             ELSE LET key == substr(header, 0, sep_idx)
                      val == substr_from(header, sep_idx + 1)
                      val_f == find_first_not_of(val, {"\t", " "})
                      val_l == find_last_not_of(val, {"\r", "\n", "\t", " "})
                  IN  [do |-> "emplace", key |-> key,
                       val |-> IF val_f # npos /\ val_l # npos
                               THEN substr(val, val_f, val_l) ELSE <<>>]

\* the characters used in keys, values and URLs, with their codes
ascii == [c \in {" ", "1", "?", "K", "a", "b", "k", "u", "v", "x"} |->
            CASE c = " " -> 32 [] c = "1" -> 49 [] c = "?" -> 63 [] c = "K" -> 75
              [] c = "a" -> 97 [] c = "b" -> 98 [] c = "k" -> 107 [] c = "u" -> 117
              [] c = "v" -> 118 [] c = "x" -> 120]

\* std::tolower on a character code
tolower(n) == IF 65 <= n /\ n <= 90 THEN n + 32 ELSE n

\* std::lexicographical_compare, the characters compared by ord
RECURSIVE lexicographical_compare(_, _, _)
lexicographical_compare(l, r, ord) ==
    IF r = <<>> THEN FALSE
    ELSE IF l = <<>> THEN TRUE
    ELSE IF ord[Head(l)] < ord[Head(r)] THEN TRUE
    ELSE IF ord[Head(r)] < ord[Head(l)] THEN FALSE
    ELSE lexicographical_compare(Tail(l), Tail(r), ord)

\* detail::case_string_compare and detail::icase_string_compare
case_string_compare(l, r) == lexicographical_compare(l, r, ascii)
icase_string_compare(l, r) ==
    lexicographical_compare(l, r, [c \in DOMAIN ascii |-> tolower(ascii[c])])

\* std::multimap<..., case_string_compare>::emplace: the pairs are kept in
\* key order, a new pair goes after the pairs with an equivalent key
qparams_emplace(ps, k, v) ==
    LET after == {i \in 1..Len(ps) : case_string_compare(k, ps[i].first)}
        pos == IF after = {} THEN Len(ps) + 1
               ELSE CHOOSE i \in after : \A j \in after : i <= j
    IN  SubSeq(ps, 1, pos - 1) \o <<[first |-> k, second |-> v]>>
            \o SubSeq(ps, pos, Len(ps))

\* std::map<..., icase_string_compare>::insert_or_assign: one pair per
\* equivalent key, the stored key keeps its first spelling
headers_insert_or_assign(hs, k, v) ==
    LET same == {i \in 1..Len(hs) : /\ ~icase_string_compare(k, hs[i].first)
                                     /\ ~icase_string_compare(hs[i].first, k)}
        after == {i \in 1..Len(hs) : icase_string_compare(k, hs[i].first)}
        pos == IF after = {} THEN Len(hs) + 1
               ELSE CHOOSE i \in after : \A j \in after : i <= j
    IN  IF same # {}
        THEN [i \in 1..Len(hs) |-> IF i \in same THEN [hs[i] EXCEPT !.second = v]
                                                ELSE hs[i]]
        ELSE SubSeq(hs, 1, pos - 1) \o <<[first |-> k, second |-> v]>>
                \o SubSeq(hs, pos, Len(hs))

\* an emplace that overwrites the value of an equivalent key
headers_emplace_assigns(hs, k, v) == headers_insert_or_assign(hs, k, v)

\* std::map<..., icase_string_compare>::emplace: a pair whose key is
\* equivalent to a stored key is dropped, a new key goes in key order
headers_emplace(hs, k, v) ==
    LET same == {i \in 1..Len(hs) : /\ ~icase_string_compare(k, hs[i].first)
                                     /\ ~icase_string_compare(hs[i].first, k)}
        after == {i \in 1..Len(hs) : icase_string_compare(k, hs[i].first)}
        pos == IF after = {} THEN Len(hs) + 1
               ELSE CHOOSE i \in after : \A j \in after : i <= j
    IN  IF same # {} THEN hs
        ELSE SubSeq(hs, 1, pos - 1) \o <<[first |-> k, second |-> v]>>
                \o SubSeq(hs, pos, Len(hs))

\* header_callback_ on the characters of one line, applied to the map
\* response_headers_
header_callback_on(hs, header) ==
    LET h == header_line(header)
    IN  CASE h.do = "clear" -> <<>>
          [] h.do = "emplace" -> headers_emplace(hs, h.key, h.val)
          [] OTHER -> hs

\* make_header_slist: one entry for every pair of the map
make_header_slist(headers) ==
    [i \in 1..Len(headers) |->
        headers[i].first \o (IF headers[i].second # <<>>
                              THEN <<":", " ">> \o headers[i].second ELSE <<";">>)]

\* curl_easy_escape: letters, digits and - . _ ~ stay, every other character
\* becomes % and its code in two hexadecimal digits
HexDigits == <<"0", "1", "2", "3", "4", "5", "6", "7", "8", "9",
               "A", "B", "C", "D", "E", "F">>

unreserved(n) ==
    \/ 48 <= n /\ n <= 57
    \/ 65 <= n /\ n <= 90
    \/ 97 <= n /\ n <= 122
    \/ n \in {45, 46, 95, 126}

RECURSIVE make_escaped_string(_)
make_escaped_string(str) ==
    IF str = <<>> THEN <<>>
    ELSE LET n == ascii[Head(str)]
         IN  (IF unreserved(n) THEN <<Head(str)>>
              ELSE <<"%", HexDigits[(n \div 16) + 1], HexDigits[(n % 16) + 1]>>)
                 \o make_escaped_string(Tail(str))

\* the loop of make_escaped_url with has_qparams never set
RECURSIVE append_qparams_unset(_, _, _)
append_qparams_unset(result, has_qparams, ps) ==
    IF ps = <<>> THEN result
    ELSE LET k == IF Head(ps).first # <<>> THEN Head(ps).first ELSE Head(ps).second
             v == IF Head(ps).first # <<>> THEN Head(ps).second ELSE <<>>
         IN  IF k = <<>> THEN append_qparams_unset(result, has_qparams, Tail(ps))
             ELSE append_qparams_unset(
                     result \o (IF has_qparams THEN <<"&">> ELSE <<"?">>)
                            \o make_escaped_string(k)
                            \o (IF v # <<>> THEN <<"=">> \o make_escaped_string(v)
                                ELSE <<>>),
                     has_qparams, Tail(ps))

\* the loop of make_escaped_url over the pairs, in the container's order
RECURSIVE append_qparams(_, _, _)
append_qparams(result, has_qparams, ps) ==
    IF ps = <<>> THEN result
    ELSE LET k == IF Head(ps).first # <<>> THEN Head(ps).first ELSE Head(ps).second
             v == IF Head(ps).first # <<>> THEN Head(ps).second ELSE <<>>
         IN  IF k = <<>> THEN append_qparams(result, has_qparams, Tail(ps))
             ELSE append_qparams(
                     result \o (IF has_qparams THEN <<"&">> ELSE <<"?">>)
                            \o make_escaped_string(k)
                            \o (IF v # <<>> THEN <<"=">> \o make_escaped_string(v)
                                ELSE <<>>),
                     TRUE, Tail(ps))

make_escaped_url(u, ps) == append_qparams(u, find(u, "?") # npos, ps)

\* default_progressor::update, in units of 1/Scale
default_progressor_update(dnow, dtotal, unow, utotal) ==
    LET now_d == dnow + unow
        total_d == dtotal + utotal
        progress_d == IF total_d > 0 THEN (now_d * Scale) \div total_d ELSE 0
    IN  Min(Max(progress_d, 0), Scale)

\* progress_callback: user_ret is what a user progressor returns
progress_callback(s, dlnow, dltotal, ulnow, ultotal, user_ret) ==
    LET dnow_sz == IF dlnow > 0 THEN dlnow ELSE 0
        dtotal_sz == IF dltotal > 0 THEN dltotal ELSE 0
        unow_sz == IF ulnow > 0 THEN ulnow ELSE 0
        utotal_sz == IF ultotal > 0 THEN ultotal ELSE 0
    IN  [s EXCEPT !.progress_ =
            IF s.breq_progressor = "default"
            THEN default_progressor_update(dnow_sz, dtotal_sz, unow_sz, utotal_sz)
            ELSE user_ret]


\* ------------------------------------------------------------ helpers
Sent == 1..nsent

\* an erase that leaves the entry in the registry
erase_nothing(v, i) == v

\* an erase that removes the last element
erase_back(v, i) == SubSeq(v, 1, Len(v) - 1)

\* std::vector::erase(iter)
erase(v, i) == [j \in 1..(Len(v) - 1) |-> IF j < i THEN v[j] ELSE v[j + 1]]

\* curl_multi_remove_handle drops the pending messages of the handle
remove_messages(q, r) == SelectSeq(q, LAMBDA m : m[1] # r)

\* positions of a thread inside call_callback, and where it goes on afterwards
CallbackEntry == {"p1_callback", "p3_callback", "cq_callback", "ca_callback"}
CallbackBody ==
    [x \in CallbackEntry |->
        CASE x = "p1_callback" -> "p1_user"
          [] x = "p3_callback" -> "p3_user"
          [] x = "cq_callback" -> "cq_user"
          [] x = "ca_callback" -> "ca_user"]
CallbackRunning == {CallbackBody[x] : x \in CallbackEntry}
CallbackExit ==
    [x \in CallbackEntry \cup CallbackRunning |->
        CASE x \in {"p1_callback", "p1_user"} -> "p1_dequeue"
          [] x \in {"p3_callback", "p3_user"} -> "p3_iter"
          [] x \in {"cq_callback", "cq_user"} -> "cq_dequeue"
          [] x \in {"ca_callback", "ca_user"} -> "ca_iter"]

\* the user callback of request r is running
callback_running(r) ==
    \E t \in Threads : pc[t] \in CallbackRunning /\ sreq[t] = r /\ req[r].breq_callback

\* no phase 3 is under way
no_harvest == [start |-> <<>>, seen |-> <<>>, kept |-> <<>>]

\* request_builder(): no URL, no query parameters, no headers
\* (added_qparams and added_headers record the calls of qparam and header)
request_builder ==
    [url_ |-> <<>>, qparams_ |-> <<>>, headers_ |-> <<>>,
     added_qparams |-> <<>>, added_headers |-> <<>>]

Init ==
    /\ req = [r \in Reqs |-> internal_state(CHOOSE rb \in Builders : ~rb.callback)]
    /\ nsent = 0
    /\ new_handles = <<>>
    /\ active_handles = <<>>
    /\ mutex = NoThread
    /\ pc = [t \in Threads |-> "idle"]
    /\ sreq = [t \in Threads |-> NoReq]
    /\ iter = 1
    /\ now_since = [r \in Reqs |-> 0]
    /\ transfer = [r \in Reqs |-> "none"]
    /\ msgs = <<>>
    /\ activity = 0
    /\ assert_failed = FALSE
    /\ builder = request_builder
    /\ out = [fn |-> "none"]
    /\ dst = [t \in Threads |-> <<>>]
    /\ harvest = no_harvest

\* ------------------------------------------------------ client calls

\* a send that enters curl_state::with
send_locked(rb, limit) ==
    /\ mutex = NoThread
    /\ nsent < limit
    /\ nsent' = nsent + 1
    /\ req' = [req EXCEPT ![nsent + 1] = internal_state(rb)]
    /\ new_handles' = mt_queue_enqueue(new_handles, nsent + 1)
    /\ UNCHANGED <<harvest, builder, out, dst, active_handles, mutex, pc, sreq, iter, now_since, transfer,
                   msgs, activity, assert_failed>>

\* request_builder::send()
send(rb, limit) ==
    /\ nsent < limit
    /\ nsent' = nsent + 1
    /\ req' = [req EXCEPT ![nsent + 1] = internal_state(rb)]
    /\ new_handles' = mt_queue_enqueue(new_handles, nsent + 1)
    /\ UNCHANGED <<harvest, builder, out, dst, active_handles, mutex, pc, sreq, iter, now_since, transfer,
                   msgs, activity, assert_failed>>

\* request::cancel()
Cancel(r) ==
    /\ r \in Sent
    /\ req' = [req EXCEPT ![r] = cancel(req[r])]
    /\ UNCHANGED <<harvest, builder, out, dst, nsent, new_handles, active_handles, mutex, pc, sreq, iter,
                   now_since, transfer, msgs, activity, assert_failed>>

\* a take() that also waits until the completion callback has returned
Take_after_callback(r) ==
    /\ r \in Sent
    /\ wait_ready(req[r], TRUE)
    /\ req' = [req EXCEPT ![r] = take(req[r])]
    /\ UNCHANGED <<harvest, builder, out, dst, nsent, new_handles, active_handles, mutex, pc, sreq, iter,
                   now_since, transfer, msgs, activity, assert_failed>>

\* request::take(): blocks while pending, then returns the response or throws
Take(r) ==
    /\ r \in Sent
    /\ wait_ready(req[r], FALSE)
    /\ req' = [req EXCEPT ![r] = take(req[r])]
    /\ UNCHANGED <<harvest, builder, out, dst, nsent, new_handles, active_handles, mutex, pc, sreq, iter,
                   now_since, transfer, msgs, activity, assert_failed>>

\* the clock advances by one unit
Tick ==
    /\ \E r \in Reqs : req[r].curlh_ /\ req[r].since_last_response < MaxIdle
    /\ req' = [r \in Reqs |->
                 IF req[r].curlh_
                 THEN [req[r] EXCEPT !.since_last_response = Min(@ + 1, MaxIdle)]
                 ELSE req[r]]
    /\ UNCHANGED <<harvest, builder, out, dst, nsent, new_handles, active_handles, mutex, pc, sreq, iter,
                   now_since, transfer, msgs, activity, assert_failed>>

\* ------------------------------------------------- call_callback steps

\* call_callback enters the user callback (if the builder has one)
CallbackInvoke(t) ==
    /\ pc[t] \in CallbackEntry
    /\ req[sreq[t]].breq_callback
    /\ pc' = [pc EXCEPT ![t] = CallbackBody[pc[t]]]
    /\ UNCHANGED <<harvest, builder, out, dst, req, nsent, new_handles, active_handles, mutex, sreq, iter,
                   now_since, transfer, msgs, activity, assert_failed>>

\* the user callback has returned or thrown; call_callback sets callbacked_,
\* and the caller goes on (phase 3 and cancel_all erase the registry entry)
CallbackReturn(t, exc) ==
    /\ \/ pc[t] \in CallbackRunning
       \/ pc[t] \in CallbackEntry /\ ~req[sreq[t]].breq_callback /\ ~exc
    /\ assert_failed' = (assert_failed \/ ~call_callback_assert(req[sreq[t]]))
    /\ req' = [req EXCEPT ![sreq[t]] = call_callback(req[sreq[t]], exc)]
    /\ pc' = [pc EXCEPT ![t] = CallbackExit[pc[t]]]
    /\ active_handles' = CASE pc[t] \in {"p3_callback", "p3_user"} ->
                                erase(active_handles, iter)
                           [] pc[t] \in {"ca_callback", "ca_user"} ->
                                erase(active_handles, 1)
                           [] OTHER -> active_handles
    /\ sreq' = [sreq EXCEPT ![t] = NoReq]
    /\ UNCHANGED <<harvest, builder, out, dst, nsent, new_handles, mutex, iter, now_since, transfer, msgs,
                   activity>>

\* ------------------------------------------------- perform(), phase 1

\* perform() is called and takes the engine mutex for phase 1
StartPerform(t) ==
    /\ pc[t] = "idle"
    /\ mutex = NoThread
    /\ mutex' = t
    /\ pc' = [pc EXCEPT ![t] = "p1_dequeue"]
    /\ UNCHANGED <<harvest, builder, out, dst, req, nsent, new_handles, active_handles, sreq, iter, now_since,
                   transfer, msgs, activity, assert_failed>>

\* new_handles.try_dequeue(sreq) and the is_pending() test on the request it
\* yields (one step: no other thread can reach the dequeued request through
\* the queue, and a cancel() between the two calls acts as one before them);
\* an empty queue ends phase 1
P1TryDequeue(t) ==
    /\ pc[t] = "p1_dequeue"
    /\ IF new_handles = <<>>
       THEN /\ mutex' = NoThread
            /\ pc' = [pc EXCEPT ![t] = "p2_lock"]
            /\ UNCHANGED <<new_handles, sreq>>
       ELSE /\ sreq' = [sreq EXCEPT ![t] = mt_queue_front(new_handles)]
            /\ new_handles' = mt_queue_pop_front(new_handles)
            /\ pc' = [pc EXCEPT ![t] = IF req[Head(new_handles)].status_ # "pending"
                                       THEN "p1_callback" ELSE "p1_enqueue"]
            /\ UNCHANGED mutex
    /\ UNCHANGED <<harvest, builder, out, dst, req, nsent, active_handles, iter, now_since, transfer, msgs,
                   activity, assert_failed>>

\* sreq->enqueue(curlm); active_handles.emplace_back(sreq)
P1Enqueue(t) ==
    /\ pc[t] = "p1_enqueue"
    /\ req' = [req EXCEPT ![sreq[t]] = enqueue(req[sreq[t]])]
    /\ transfer' = [transfer EXCEPT ![sreq[t]] = "running"]
    /\ active_handles' = Append(active_handles, sreq[t])
    /\ pc' = [pc EXCEPT ![t] = "p1_dequeue"]
    /\ sreq' = [sreq EXCEPT ![t] = NoReq]
    /\ UNCHANGED <<harvest, builder, out, dst, nsent, new_handles, mutex, iter, now_since, msgs, activity,
                   assert_failed>>

\* sreq->enqueue(curlm) throws
P1EnqueueThrows(t, where) ==
    /\ pc[t] = "p1_enqueue"
    /\ req' = [req EXCEPT ![sreq[t]] = enqueue_throw(req[sreq[t]], where)]
    /\ pc' = [pc EXCEPT ![t] = "p1_catch"]
    /\ UNCHANGED <<harvest, builder, out, dst, nsent, new_handles, active_handles, mutex, sreq, iter, now_since,
                   transfer, msgs, activity, assert_failed>>

\* a catch branch that fails the request and leaves its easy handle
P1Catch_without_dequeue(t) ==
    /\ pc[t] = "p1_catch"
    /\ req' = [req EXCEPT ![sreq[t]] = fail(req[sreq[t]], CURLE_FAILED_INIT)]
    /\ pc' = [pc EXCEPT ![t] = "p1_callback"]
    /\ UNCHANGED <<harvest, builder, out, dst, nsent, new_handles, active_handles, mutex, sreq, iter, now_since,
                   transfer, msgs, activity, assert_failed>>

\* catch (...): sreq->fail(CURLE_FAILED_INIT); sreq->dequeue(curlm)
P1Catch(t) ==
    /\ pc[t] = "p1_catch"
    /\ req' = [req EXCEPT ![sreq[t]] = dequeue(fail(req[sreq[t]], CURLE_FAILED_INIT))]
    /\ pc' = [pc EXCEPT ![t] = "p1_callback"]
    /\ UNCHANGED <<harvest, builder, out, dst, nsent, new_handles, active_handles, mutex, sreq, iter, now_since,
                   transfer, msgs, activity, assert_failed>>


\* ------------------------------------------------- perform(), phase 2

\* curl_state::with of phase 2 takes the engine mutex; curl_multi_perform starts
P2Lock(t) ==
    /\ pc[t] = "p2_lock"
    /\ mutex = NoThread
    /\ mutex' = t
    /\ pc' = [pc EXCEPT ![t] = "p2_multi_perform"]
    /\ UNCHANGED <<harvest, builder, out, dst, req, nsent, new_handles, active_handles, sreq, iter, now_since,
                   transfer, msgs, activity, assert_failed>>

\* a running transfer may call back while thread t is inside curl_multi_perform
may_call_back(t, r) ==
    /\ pc[t] = "p2_multi_perform"
    /\ transfer[r] = "running"
    /\ activity < MaxActivity

\* libcurl calls s_upload_callback_ for `size` bytes of the request body
UploadCallback(t, r, size) ==
    /\ may_call_back(t, r)
    /\ abort_result("upload", upload_callback_ret(FALSE, size), size) = CURLE_OK
    /\ req' = [req EXCEPT ![r] = upload_callback_(req[r], size)]
    /\ activity' = activity + 1
    /\ UNCHANGED <<harvest, builder, out, dst, nsent, new_handles, active_handles, mutex, pc, sreq, iter,
                   now_since, transfer, msgs, assert_failed>>

\* a user uploader throws: the trampoline returns the abort value and
\* libcurl ends the transfer
UploadCallbackThrows(t, r, size) ==
    /\ may_call_back(t, r)
    /\ req[r].breq_uploader = "user"
    /\ req' = [req EXCEPT ![r] = upload_callback_(req[r], size)]
    /\ transfer' = [transfer EXCEPT ![r] = "finished"]
    /\ msgs' = Append(msgs,
            <<r, abort_result("upload", upload_callback_ret(TRUE, size), size)>>)
    /\ UNCHANGED <<harvest, builder, out, dst, nsent, new_handles, active_handles, mutex, pc, sreq, iter,
                   now_since, activity, assert_failed>>

\* libcurl calls s_download_callback_ with `size` bytes of the body
DownloadCallback(t, r, size) ==
    /\ may_call_back(t, r)
    /\ abort_result("download", download_callback_ret(FALSE, size), size) = CURLE_OK
    /\ req' = [req EXCEPT ![r] = download_callback_(req[r], size, FALSE)]
    /\ activity' = activity + 1
    /\ UNCHANGED <<harvest, builder, out, dst, nsent, new_handles, active_handles, mutex, pc, sreq, iter,
                   now_since, transfer, msgs, assert_failed>>

\* a user downloader throws: the trampoline returns 0 and libcurl ends the
\* transfer
DownloadCallbackThrows(t, r, size) ==
    /\ may_call_back(t, r)
    /\ req[r].breq_downloader = "user"
    /\ req' = [req EXCEPT ![r] = download_callback_(req[r], size, TRUE)]
    /\ transfer' = [transfer EXCEPT ![r] = "finished"]
    /\ msgs' = Append(msgs,
            <<r, abort_result("download", download_callback_ret(TRUE, size), size)>>)
    /\ UNCHANGED <<harvest, builder, out, dst, nsent, new_handles, active_handles, mutex, pc, sreq, iter,
                   now_since, activity, assert_failed>>

\* libcurl calls s_header_callback_ with one header line; budget bounds the
\* number of callbacks
HeaderCallback(t, r, line, budget) ==
    /\ pc[t] = "p2_multi_perform"
    /\ transfer[r] = "running"
    /\ activity < budget
    /\ req' = [req EXCEPT ![r] = header_callback_(req[r], line)]
    /\ activity' = activity + 1
    /\ UNCHANGED <<harvest, builder, out, dst, nsent, new_handles, active_handles, mutex, pc, sreq, iter,
                   now_since, transfer, msgs, assert_failed>>

\* what the progressor of request r may return when it is a user's (the value
\* of default_progressor comes from its arguments)
UserReturns(r) ==
    IF req[r].breq_progressor = "user" THEN UserProgress ELSE {0}

\* libcurl calls s_progress_callback_; the progressor returns a value (for a
\* user progressor the byte counts are immaterial and two of them are fixed)
ProgressCallback(t, r, dlnow, dltotal, ulnow, ultotal, user_ret) ==
    /\ may_call_back(t, r)
    /\ req[r].breq_progressor = "user" => dlnow = MaxBytes /\ ulnow = 0
    /\ abort_result("progress", progress_callback_ret(FALSE), 0) = CURLE_OK
    /\ req' = [req EXCEPT ![r] =
                 progress_callback(req[r], dlnow, dltotal, ulnow, ultotal, user_ret)]
    /\ activity' = activity + 1
    /\ UNCHANGED <<harvest, builder, out, dst, nsent, new_handles, active_handles, mutex, pc, sreq, iter,
                   now_since, transfer, msgs, assert_failed>>

\* a user progressor throws: the trampoline returns 1 and libcurl ends the
\* transfer with CURLE_ABORTED_BY_CALLBACK
ProgressCallbackThrows(t, r) ==
    /\ may_call_back(t, r)
    /\ req[r].breq_progressor = "user"
    /\ transfer' = [transfer EXCEPT ![r] = "finished"]
    /\ msgs' = Append(msgs,
            <<r, abort_result("progress", progress_callback_ret(TRUE), 0)>>)
    /\ UNCHANGED <<harvest, builder, out, dst, req, nsent, new_handles, active_handles, mutex, pc, sreq, iter,
                   now_since, activity, assert_failed>>

\* libcurl finishes a transfer with a result code (and an error text)
TransferFinishes(t, r, result, text) ==
    /\ pc[t] = "p2_multi_perform"
    /\ transfer[r] = "running"
    /\ result # CURLE_COULDNT_CONNECT => text = ""
    /\ transfer' = [transfer EXCEPT ![r] = "finished"]
    /\ msgs' = Append(msgs, <<r, result>>)
    /\ req' = [req EXCEPT ![r].error_buffer_ = text]
    /\ UNCHANGED <<harvest, builder, out, dst, nsent, new_handles, active_handles, mutex, pc, sreq, iter,
                   now_since, activity, assert_failed>>

\* curl_multi_perform returns
P2MultiPerformReturns(t) ==
    /\ pc[t] = "p2_multi_perform"
    /\ pc' = [pc EXCEPT ![t] = "p2_info_read"]
    /\ UNCHANGED <<harvest, builder, out, dst, req, nsent, new_handles, active_handles, mutex, sreq, iter,
                   now_since, transfer, msgs, activity, assert_failed>>

\* curl_multi_info_read: one CURLMSG_DONE message goes to done() or fail();
\* with no message left, `now` is read for the idle check
P2InfoRead(t, info_ok) ==
    /\ pc[t] = "p2_info_read"
    /\ IF msgs = <<>>
       THEN /\ info_ok
            /\ now_since' = [r \in Reqs |-> req[r].since_last_response]
            /\ iter' = 1
            /\ pc' = [pc EXCEPT ![t] = "p2_timeout"]
            /\ UNCHANGED <<req, msgs>>
       ELSE /\ LET r == Head(msgs)[1]
                   result == Head(msgs)[2]
               IN  /\ (result # CURLE_OK) => info_ok
                   /\ req' = [req EXCEPT ![r] = IF result = CURLE_OK
                                                THEN done(req[r], info_ok)
                                                ELSE fail(req[r], result)]
            /\ msgs' = Tail(msgs)
            /\ UNCHANGED <<now_since, iter, pc>>
    /\ UNCHANGED <<harvest, builder, out, dst, nsent, new_handles, active_handles, mutex, sreq, transfer,
                   activity, assert_failed>>

\* the idle check of one registry entry; past the end phase 2 is over
P2Timeout(t) ==
    /\ pc[t] = "p2_timeout"
    /\ IF iter > Len(active_handles)
       THEN /\ mutex' = NoThread
            /\ pc' = [pc EXCEPT ![t] = "p3_lock"]
            /\ now_since' = [r \in Reqs |-> 0]
            /\ iter' = 1
            /\ UNCHANGED req
       ELSE /\ LET r == active_handles[iter]
               IN  req' = [req EXCEPT ![r] =
                             IF check_response_timeout(req[r], now_since[r])
                             THEN fail(req[r], CURLE_OPERATION_TIMEDOUT)
                             ELSE req[r]]
            /\ iter' = iter + 1
            /\ UNCHANGED <<mutex, pc, now_since>>
    /\ UNCHANGED <<harvest, builder, out, dst, nsent, new_handles, active_handles, sreq, transfer, msgs,
                   activity, assert_failed>>

\* ------------------------------------------------- perform(), phase 3

P3Lock(t) ==
    /\ pc[t] = "p3_lock"
    /\ mutex = NoThread
    /\ mutex' = t
    /\ iter' = 1
    /\ harvest' = [start |-> active_handles, seen |-> <<>>, kept |-> <<>>]
    /\ pc' = [pc EXCEPT ![t] = "p3_iter"]
    /\ UNCHANGED <<builder, out, dst, req, nsent, new_handles, active_handles, sreq, now_since,
                   transfer, msgs, activity, assert_failed>>

\* one turn of the harvest loop: a request that is no longer pending is
\* detached (and called back, then erased); a pending one is stepped over
P3Iter(t) ==
    /\ pc[t] = "p3_iter"
    /\ IF iter > Len(active_handles)
       THEN /\ mutex' = NoThread
            /\ pc' = [pc EXCEPT ![t] = "idle"]
            /\ iter' = 1
            /\ harvest' = no_harvest
            /\ UNCHANGED <<req, sreq, transfer, msgs>>
       ELSE LET r == active_handles[iter]
            IN  IF req[r].status_ # "pending"
                THEN /\ req' = [req EXCEPT ![r] = dequeue(req[r])]
                     /\ transfer' = [transfer EXCEPT ![r] = "none"]
                     /\ msgs' = remove_messages(msgs, r)
                     /\ sreq' = [sreq EXCEPT ![t] = r]
                     /\ pc' = [pc EXCEPT ![t] = "p3_callback"]
                     /\ harvest' = [harvest EXCEPT !.seen = Append(@, r)]
                     /\ UNCHANGED <<mutex, iter>>
                ELSE /\ iter' = iter + 1
                     /\ harvest' = [harvest EXCEPT !.seen = Append(@, r),
                                                   !.kept = Append(@, r)]
                     /\ UNCHANGED <<req, sreq, transfer, msgs, mutex, pc>>
    /\ UNCHANGED <<builder, out, dst, nsent, new_handles, active_handles, now_since, activity,
                   assert_failed>>

\* ------------------------------------- cancel_all_pending_requests()

\* new_handles.try_dequeue(sreq) outside the engine mutex
StartCancelAll(t) ==
    /\ pc[t] = "idle"
    /\ pc' = [pc EXCEPT ![t] = "cq_dequeue"]
    /\ UNCHANGED <<harvest, builder, out, dst, req, nsent, new_handles, active_handles, mutex, sreq, iter,
                   now_since, transfer, msgs, activity, assert_failed>>

CqTryDequeue(t) ==
    /\ pc[t] = "cq_dequeue"
    /\ IF new_handles = <<>>
       THEN /\ pc' = [pc EXCEPT ![t] = "ca_lock"]
            /\ UNCHANGED <<new_handles, sreq>>
       ELSE /\ sreq' = [sreq EXCEPT ![t] = mt_queue_front(new_handles)]
            /\ new_handles' = mt_queue_pop_front(new_handles)
            /\ pc' = [pc EXCEPT ![t] = "cq_cancel"]
    /\ UNCHANGED <<harvest, builder, out, dst, req, nsent, active_handles, mutex, iter, now_since, transfer,
                   msgs, activity, assert_failed>>

\* sreq->cancel() on a request taken from the queue
CqCancel(t) ==
    /\ pc[t] = "cq_cancel"
    /\ req' = [req EXCEPT ![sreq[t]] = cancel(req[sreq[t]])]
    /\ pc' = [pc EXCEPT ![t] = "cq_callback"]
    /\ UNCHANGED <<harvest, builder, out, dst, nsent, new_handles, active_handles, mutex, sreq, iter, now_since,
                   transfer, msgs, activity, assert_failed>>

\* a sweep of the registry that starts outside curl_state::with
CaLock_without_mutex(t) ==
    /\ pc[t] = "ca_lock"
    /\ pc' = [pc EXCEPT ![t] = "ca_iter"]
    /\ UNCHANGED <<harvest, builder, out, dst, req, nsent, new_handles, active_handles, mutex, sreq, iter,
                   now_since, transfer, msgs, activity, assert_failed>>

\* curl_state::with is entered for the sweep of the registry
CaLock(t) ==
    /\ pc[t] = "ca_lock"
    /\ mutex = NoThread
    /\ mutex' = t
    /\ pc' = [pc EXCEPT ![t] = "ca_iter"]
    /\ UNCHANGED <<harvest, builder, out, dst, req, nsent, new_handles, active_handles, sreq, iter, now_since,
                   transfer, msgs, activity, assert_failed>>

\* the sweep of the registry: (*iter)->cancel(); (*iter)->dequeue(curlm)
CaIter(t) ==
    /\ pc[t] = "ca_iter"
    /\ IF active_handles = <<>>
       THEN /\ mutex' = NoThread
            /\ pc' = [pc EXCEPT ![t] = "idle"]
            /\ UNCHANGED <<req, sreq, transfer, msgs>>
       ELSE LET r == active_handles[1]
            IN  /\ req' = [req EXCEPT ![r] = dequeue(cancel(req[r]))]
                /\ transfer' = [transfer EXCEPT ![r] = "none"]
                /\ msgs' = remove_messages(msgs, r)
                /\ sreq' = [sreq EXCEPT ![t] = r]
                /\ pc' = [pc EXCEPT ![t] = "ca_callback"]
                /\ UNCHANGED mutex
    /\ UNCHANGED <<harvest, builder, out, dst, nsent, new_handles, active_handles, iter, now_since, activity,
                   assert_failed>>

\* ------------------------------------------------------ wait_activity

\* a wait_activity that does not look at the queue when the registry is
\* not empty
StartWaitActivity_registry_only(t) ==
    /\ pc[t] = "idle"
    /\ mutex = NoThread
    /\ mutex' = t
    /\ pc' = [pc EXCEPT ![t] = IF active_handles = <<>> THEN "wa_queue_wait"
                               ELSE "wa_multi_wait"]
    /\ UNCHANGED <<harvest, builder, out, dst, req, nsent, new_handles, active_handles, sreq, iter,
                   now_since, transfer, msgs, activity, assert_failed>>

\* wait_activity(ms) enters curl_state::with and, holding the engine mutex,
\* waits on the queue when the registry is empty, in curl_multi_wait when
\* the registry is not empty and the queue is, and not at all otherwise
StartWaitActivity(t) ==
    /\ pc[t] = "idle"
    /\ mutex = NoThread
    /\ mutex' = t
    /\ pc' = [pc EXCEPT ![t] = IF active_handles = <<>> THEN "wa_queue_wait"
                               ELSE IF new_handles = <<>> THEN "wa_multi_wait"
                               ELSE "wa_return"]
    /\ UNCHANGED <<harvest, builder, out, dst, req, nsent, new_handles, active_handles, sreq, iter,
                   now_since, transfer, msgs, activity, assert_failed>>

\* new_handles.wait_for(ms): the condition variable's predicate
\* !deque_.empty() holds (at once, or after enqueue's notify_all)
WaNotified(t) ==
    /\ pc[t] = "wa_queue_wait"
    /\ new_handles # <<>>
    /\ pc' = [pc EXCEPT ![t] = "wa_return"]
    /\ UNCHANGED <<harvest, builder, out, dst, req, nsent, new_handles, active_handles, mutex, sreq, iter,
                   now_since, transfer, msgs, activity, assert_failed>>

\* new_handles.wait_for(ms): ms have elapsed
WaQueueTimeout(t) ==
    /\ pc[t] = "wa_queue_wait"
    /\ pc' = [pc EXCEPT ![t] = "wa_return"]
    /\ UNCHANGED <<harvest, builder, out, dst, req, nsent, new_handles, active_handles, mutex, sreq, iter,
                   now_since, transfer, msgs, activity, assert_failed>>

\* curl_multi_wait(curlm, nullptr, 0, timeout_ms, nullptr) returns: a socket
\* of a transfer has activity, or timeout_ms have elapsed
WaMultiWaitReturns(t) ==
    /\ pc[t] = "wa_multi_wait"
    /\ pc' = [pc EXCEPT ![t] = "wa_return"]
    /\ UNCHANGED <<harvest, builder, out, dst, req, nsent, new_handles, active_handles, mutex, sreq, iter,
                   now_since, transfer, msgs, activity, assert_failed>>

\* the end of curl_state::with
WaReturn(t) ==
    /\ pc[t] = "wa_return"
    /\ mutex' = NoThread
    /\ pc' = [pc EXCEPT ![t] = "idle"]
    /\ UNCHANGED <<harvest, builder, out, dst, req, nsent, new_handles, active_handles, sreq, iter,
                   now_since, transfer, msgs, activity, assert_failed>>

\* ------------------------------------------- get_all_pending_requests

\* get_all_pending_requests(dst) is called with a vector that may already
\* hold requests
StartGetAll(t, given) ==
    /\ pc[t] = "idle"
    /\ dst' = [dst EXCEPT ![t] = given]
    /\ pc' = [pc EXCEPT ![t] = "ga_copy_to"]
    /\ UNCHANGED <<harvest, builder, out, req, nsent, new_handles, active_handles, mutex, sreq, iter,
                   now_since, transfer, msgs, activity, assert_failed>>

\* new_handles.copy_to(dst)
GaCopyTo(t) ==
    /\ pc[t] = "ga_copy_to"
    /\ dst' = [dst EXCEPT ![t] = mt_queue_copy_to(new_handles, dst[t])]
    /\ pc' = [pc EXCEPT ![t] = "ga_lock"]
    /\ UNCHANGED <<harvest, builder, out, req, nsent, new_handles, active_handles, mutex, sreq, iter,
                   now_since, transfer, msgs, activity, assert_failed>>

\* curl_state::with is entered
GaLock(t) ==
    /\ pc[t] = "ga_lock"
    /\ mutex = NoThread
    /\ mutex' = t
    /\ pc' = [pc EXCEPT ![t] = "ga_insert"]
    /\ UNCHANGED <<harvest, builder, out, dst, req, nsent, new_handles, active_handles, sreq, iter,
                   now_since, transfer, msgs, activity, assert_failed>>

\* dst.insert(dst.end(), active_handles.begin(), active_handles.end()), and
\* the end of curl_state::with
GaInsert(t) ==
    /\ pc[t] = "ga_insert"
    /\ dst' = [dst EXCEPT ![t] = dst[t] \o active_handles]
    /\ mutex' = NoThread
    /\ pc' = [pc EXCEPT ![t] = "ga_return"]
    /\ UNCHANGED <<harvest, builder, out, req, nsent, new_handles, active_handles, sreq, iter, now_since,
                   transfer, msgs, activity, assert_failed>>

\* the call returns and the caller takes the vector
GaReturn(t) ==
    /\ pc[t] = "ga_return"
    /\ dst' = [dst EXCEPT ![t] = <<>>]
    /\ pc' = [pc EXCEPT ![t] = "idle"]
    /\ UNCHANGED <<harvest, builder, out, req, nsent, new_handles, active_handles, mutex, sreq, iter,
                   now_since, transfer, msgs, activity, assert_failed>>

\* ------------------------------------------- wait_for / wait_until

\* a client calls wait_for, wait_until, wait_callback_for or
\* wait_callback_until on a request and blocks on the condition variable
WaitForCall(fn, r, wait_callback) ==
    /\ out.fn = "none"
    /\ r \in Sent
    /\ out' = [fn |-> fn, arg |-> r, wait_callback |-> wait_callback,
               at |-> "blocked", deadline |-> FALSE, ret |-> "none"]
    /\ UNCHANGED <<harvest, req, nsent, new_handles, active_handles, mutex, pc, sreq, iter,
                   now_since, transfer, msgs, activity, assert_failed, builder, dst>>

\* the predicate holds: the wait ends and status_ is returned
WaitForReady ==
    /\ out.fn \in {"wait_for", "wait_until"}
    /\ out.at = "blocked"
    /\ wait_for_ready(req[out.arg], out.wait_callback)
    /\ out' = [out EXCEPT !.at = "returned", !.ret = wait_for(req[out.arg])]
    /\ UNCHANGED <<harvest, req, nsent, new_handles, active_handles, mutex, pc, sreq, iter,
                   now_since, transfer, msgs, activity, assert_failed, builder, dst>>

\* the deadline passes before the predicate holds: status_ is returned
WaitForDeadline ==
    /\ out.fn \in {"wait_for", "wait_until"}
    /\ out.at = "blocked"
    /\ ~wait_for_ready(req[out.arg], out.wait_callback)
    /\ out' = [out EXCEPT !.at = "returned", !.deadline = TRUE,
                          !.ret = wait_for(req[out.arg])]
    /\ UNCHANGED <<harvest, req, nsent, new_handles, active_handles, mutex, pc, sreq, iter,
                   now_since, transfer, msgs, activity, assert_failed, builder, dst>>

\* the client has the returned status and goes on
WaitForDone ==
    /\ out.fn \in {"wait_for", "wait_until"}
    /\ out.at = "returned"
    /\ out' = [fn |-> "none"]
    /\ UNCHANGED <<harvest, req, nsent, new_handles, active_handles, mutex, pc, sreq, iter,
                   now_since, transfer, msgs, activity, assert_failed, builder, dst>>

\* ------------------------------------------- parsing and composing

\* strings of characters from cs, of length 0..n
RECURSIVE Strings(_, _)
Strings(cs, n) ==
    IF n = 0 THEN {<<>>}
    ELSE LET shorter == Strings(cs, n - 1)
         IN  shorter \cup {Append(x, c) : x \in shorter, c \in cs}

\* header lines "key:rest" the transport may deliver: rest is whitespace, a
\* value and the end of the line
HeaderInputs ==
    {key \o <<":">> \o lead \o value \o trail :
        key \in {<<>>, <<"K">>},
        lead \in Strings({"\t", " "}, MaxLead),
        value \in Strings({"v", "w"}, MaxValue),
        trail \in {<<>>, <<"\r", "\n">>, <<" ", "\r", "\n">>}}

\* libcurl calls s_header_callback_ with the characters of one line
HeaderLineArrives(header) ==
    /\ out' = [fn |-> "header_callback_", arg |-> header, val |-> header_line(header)]
    /\ UNCHANGED <<harvest, req, nsent, new_handles, active_handles, mutex, pc, sreq, iter,
                   now_since, transfer, msgs, activity, assert_failed, builder, dst>>

NextHeaderLine == \E header \in HeaderInputs : HeaderLineArrives(header)

SpecHeaderLine == Init /\ [][NextHeaderLine]_vars

\* the lines of responses: a status line, or "key: value" and the line end
ResponseKeys == {<<"k">>, <<"K">>, <<"a">>}
ResponseValues == {<<"v">>, <<"w">>}
ResponseLines ==
    {<<"H", "T", "T", "P", "/">>}
        \cup {key \o <<":", " ">> \o value \o <<"\r", "\n">> :
                 key \in ResponseKeys, value \in ResponseValues}

\* libcurl calls s_header_callback_ with the next line of a response; lines
\* records the lines delivered so far
ResponseLineArrives(header) ==
    LET lines == IF out.fn = "response" THEN out.lines ELSE <<>>
        headers == IF out.fn = "response" THEN out.headers ELSE <<>>
    IN  /\ Len(lines) < MaxLines
        /\ out' = [fn |-> "response", lines |-> Append(lines, header),
                   headers |-> header_callback_on(headers, header)]
        /\ UNCHANGED <<harvest, req, nsent, new_handles, active_handles, mutex, pc, sreq,
                       iter, now_since, transfer, msgs, activity, assert_failed, builder,
                       dst>>

NextResponseHeaders == \E header \in ResponseLines : ResponseLineArrives(header)

SpecResponseHeaders == Init /\ [][NextResponseHeaders]_vars

\* URLs, query parameters and headers a client gives to a builder
Urls == {<<"u">>, <<"u", "?">>, <<"u", "?", "x">>}
QparamKeys == {<<>>, <<"a">>, <<"b">>}
QparamValues == {<<>>, <<"1">>, <<" ">>}
HeaderNames == {<<>>, <<"k">>, <<"K">>}
HeaderValues == {<<>>, <<"v">>}

\* request_builder::url
Url(u) ==
    /\ out.fn = "none"
    /\ builder.url_ = <<>>
    /\ builder' = [builder EXCEPT !.url_ = u]
    /\ UNCHANGED <<harvest, req, nsent, new_handles, active_handles, mutex, pc, sreq, iter,
                   now_since, transfer, msgs, activity, assert_failed, out, dst>>

\* request_builder::qparam
Qparam(k, v) ==
    /\ out.fn = "none"
    /\ Len(builder.added_qparams) < MaxParams
    /\ builder' = [builder EXCEPT
            !.qparams_ = qparams_emplace(@, k, v),
            !.added_qparams = Append(@, [first |-> k, second |-> v])]
    /\ UNCHANGED <<harvest, req, nsent, new_handles, active_handles, mutex, pc, sreq, iter,
                   now_since, transfer, msgs, activity, assert_failed, out, dst>>

\* request_builder::header
Header(k, v) ==
    /\ out.fn = "none"
    /\ Len(builder.added_headers) < MaxHeaders
    /\ builder' = [builder EXCEPT
            !.headers_ = headers_insert_or_assign(@, k, v),
            !.added_headers = Append(@, [first |-> k, second |-> v])]
    /\ UNCHANGED <<harvest, req, nsent, new_handles, active_handles, mutex, pc, sreq, iter,
                   now_since, transfer, msgs, activity, assert_failed, out, dst>>

\* internal_state::enqueue composes hlist_ and url_with_qparams_ from the
\* builder it was constructed with
EnqueueComposes ==
    /\ out.fn = "none"
    /\ out' = [fn |-> "enqueue",
               hlist_ |-> make_header_slist(builder.headers_),
               url_with_qparams_ |-> make_escaped_url(builder.url_, builder.qparams_)]
    /\ UNCHANGED <<harvest, req, nsent, new_handles, active_handles, mutex, pc, sreq, iter,
                   now_since, transfer, msgs, activity, assert_failed, builder, dst>>

NextBuilder ==
    \/ \E u \in Urls : Url(u)
    \/ \E k \in QparamKeys, v \in QparamValues : Qparam(k, v)
    \/ \E k \in HeaderNames, v \in HeaderValues : Header(k, v)
    \/ EnqueueComposes

SpecBuilder == Init /\ [][NextBuilder]_vars

\* ------------------------------------------------------ specification

\* calls made on request handles and on builders, with at most n requests sent
Client(n) ==
    \/ \E rb \in Builders : send(rb, n)
    \/ \E r \in Reqs : Cancel(r)
    \/ \E r \in Reqs : Take(r)

\* the trampolines libcurl calls from inside curl_multi_perform
Callbacks(t) ==
    \E r \in {x \in Reqs : may_call_back(t, x)} :
        \/ \E size \in 1..MaxBytes : UploadCallback(t, r, size)
        \/ \E size \in 1..MaxBytes : UploadCallbackThrows(t, r, size)
        \/ \E size \in 1..MaxBytes : DownloadCallback(t, r, size)
        \/ \E size \in 1..MaxBytes : DownloadCallbackThrows(t, r, size)
        \/ \E line \in HeaderLines : HeaderCallback(t, r, line, MaxActivity)
        \/ \E user_ret \in UserReturns(r), dlnow, dltotal, ulnow, ultotal \in OffT :
              ProgressCallback(t, r, dlnow, dltotal, ulnow, ultotal, user_ret)
        \/ ProgressCallbackThrows(t, r)

Transport(t) ==
    \E r \in Reqs, result \in TransferResults, text \in ErrorTexts :
        TransferFinishes(t, r, result, text)

Perform(t) ==
    \/ StartPerform(t)
    \/ P1TryDequeue(t)
    \/ P1Enqueue(t)
    \/ \E where \in {"init", "add"} : P1EnqueueThrows(t, where)
    \/ P1Catch(t)
    \/ P2Lock(t)
    \/ P2MultiPerformReturns(t)
    \/ \E info_ok \in BOOLEAN : P2InfoRead(t, info_ok)
    \/ P2Timeout(t)
    \/ P3Lock(t)
    \/ P3Iter(t)

CancelAll(t) ==
    \/ StartCancelAll(t)
    \/ CqTryDequeue(t)
    \/ CqCancel(t)
    \/ CaLock(t)
    \/ CaIter(t)

CallCallback(t) ==
    \/ CallbackInvoke(t)
    \/ \E exc \in BOOLEAN : CallbackReturn(t, exc)

\* the engine: MaxReqs requests, MaxThreads threads, transfers that only finish
Next ==
    \/ Client(MaxReqs)
    \/ Tick
    \/ \E t \in Threads : Perform(t)
    \/ \E t \in Threads : Transport(t)
    \/ \E t \in Threads : CancelAll(t)
    \/ \E t \in Threads : CallCallback(t)

Spec == Init /\ [][Next]_vars


\* perform() is called again and again and every call goes on, user callbacks
\* return and the clock advances; the transport is free to stay silent
Fairness ==
    /\ WF_vars(Tick)
    /\ \A t \in Threads :
          /\ WF_vars(Perform(t))
          /\ WF_vars(CancelAll(t) /\ pc[t] # "idle")
          /\ WF_vars(CallCallback(t))


\* one request at a time, with the callbacks of its transfer
NextData ==
    \/ Client(DataReqs)
    \/ Tick
    \/ \E t \in Threads : Perform(t)
    \/ \E t \in Threads : Transport(t)
    \/ \E t \in Threads : Callbacks(t)
    \/ \E t \in Threads : CancelAll(t)
    \/ \E t \in Threads : CallCallback(t)

SpecData == Init /\ [][NextData]_vars

FairSpecData == SpecData /\ Fairness

WaitActivity(t) ==
    \/ StartWaitActivity(t)
    \/ WaNotified(t)
    \/ WaQueueTimeout(t)
    \/ WaMultiWaitReturns(t)
    \/ WaReturn(t)

\* the vectors a caller passes to get_all_pending_requests
GivenDst == {<<>>} \cup {<<r>> : r \in Sent}

GetAll(t) ==
    \/ \E given \in GivenDst : StartGetAll(t, given)
    \/ GaCopyTo(t)
    \/ GaLock(t)
    \/ GaInsert(t)
    \/ GaReturn(t)

\* every engine operation on every thread, one request at a time
NextEngine ==
    \/ Client(DataReqs)
    \/ Tick
    \/ \E t \in Threads : Perform(t)
    \/ \E t \in Threads : Transport(t)
    \/ \E t \in Threads : CancelAll(t)
    \/ \E t \in Threads : CallCallback(t)
    \/ \E t \in Threads : WaitActivity(t)
    \/ \E t \in Threads : GetAll(t)

SpecEngine == Init /\ [][NextEngine]_vars

WaitFor ==
    \/ \E fn \in {"wait_for", "wait_until"}, r \in Reqs, wait_callback \in BOOLEAN :
          WaitForCall(fn, r, wait_callback)
    \/ WaitForReady
    \/ WaitForDeadline
    \/ WaitForDone

\* one request, the engine on every thread, and a client in a timed wait
NextWaiter ==
    \/ Client(DataReqs)
    \/ Tick
    \/ \E t \in Threads : Perform(t)
    \/ \E t \in Threads : Transport(t)
    \/ \E t \in Threads : CancelAll(t)
    \/ \E t \in Threads : CallCallback(t)
    \/ WaitFor

SpecWaiter == Init /\ [][NextWaiter]_vars

\* the thread of a performer: it calls perform and wait_activity in turn
\* (and get_all_pending_requests) while clients send, cancel and take
Performer == 1

NextPerformer ==
    \/ Client(MaxReqs)
    \/ Tick
    \/ Perform(Performer)
    \/ Transport(Performer)
    \/ CallCallback(Performer)
    \/ WaitActivity(Performer)
    \/ GetAll(Performer)

SpecPerformer == Init /\ [][NextPerformer]_vars

\* a waiting thread whose condition variable's predicate holds goes on; the
\* transport may stay silent and the timeout is not awaited
FairSpecPerformer == SpecPerformer /\ WF_vars(WaNotified(Performer))

\* perform() on one thread while another thread calls
\* get_all_pending_requests() (the overload that starts from an empty vector)
Reader == 2

NextSnapshot ==
    \/ Client(MaxReqs)
    \/ Tick
    \/ Perform(Performer)
    \/ Transport(Performer)
    \/ CallCallback(Performer)
    \/ \E given \in {<<>>} : StartGetAll(Reader, given)
    \/ GaCopyTo(Reader)
    \/ GaLock(Reader)
    \/ GaInsert(Reader)
    \/ GaReturn(Reader)

SpecSnapshot == Init /\ [][NextSnapshot]_vars

\* one request and the header lines of its responses (redirects included)
NextHeaders ==
    \/ Client(DataReqs)
    \/ \E t \in Threads : Perform(t)
    \/ \E t \in Threads : Transport(t)
    \/ \E t \in Threads, r \in Reqs, line \in HeaderLines :
          HeaderCallback(t, r, line, MaxLines)
    \/ \E t \in Threads : CallCallback(t)

SpecHeaders == Init /\ [][NextHeaders]_vars

\* ==================================================================
\* Properties
\* ==================================================================

Terminal == {"done", "failed", "timeout", "cancelled"}

StatusEdges ==
    { <<"pending", "done">>, <<"pending", "failed">>, <<"pending", "timeout">>,
      <<"pending", "cancelled">>, <<"done", "empty">> }

\* C1: in every step the status of every request either stays as it is or moves
\* along pending->done, pending->failed, pending->timeout, pending->cancelled
\* or done->empty; so pending is left at most once and failed, timeout,
\* cancelled and empty are never left.
C1_StatusMonotone ==
    [][\A r \in Reqs :
          req'[r].status_ # req[r].status_ =>
              <<req[r].status_, req'[r].status_>> \in StatusEdges]_vars

\* a request was taken (done->empty) while the other one timed out
C1_Witness ==
    \E r1, r2 \in Reqs : req[r1].status_ = "empty" /\ req[r2].status_ = "timeout"

\* C2: call_callback runs at most once per request and only when the status is
\* no longer pending; its assertion never fails.
C2_CallbackOnce ==
    /\ ~assert_failed
    /\ \A r \in Reqs :
          /\ req[r].calls <= 1
          /\ req[r].callbacked_ <=> req[r].calls = 1
          /\ req[r].callbacked_ => req[r].status_ # "pending"

\* both requests were called back, one of them while the other thread was
\* inside perform or cancel_all_pending_requests
C2_Witness ==
    /\ \A r \in Reqs : req[r].calls = 1
    /\ \E t \in Threads : pc[t] # "idle"


\* C3: under fair ticks every request that was sent eventually leaves pending
\* and has its callback step executed, so that wait() and wait_callback()
\* return; with or without a user callback, cancelled or not, also with
\* response_timeout 0 on a transport that stays silent.
C3_EventuallyCalledBack ==
    \A r \in Reqs :
        (r \in Sent) ~> (wait_ready(req[r], FALSE) /\ wait_ready(req[r], TRUE))

\* a request sent with response_timeout 0 and no answer timed out and was
\* called back
C3_Witness ==
    \E r \in Reqs :
        /\ req[r].breq_response_timeout = 0
        /\ req[r].status_ = "timeout"
        /\ req[r].callbacked_


\* C4: the user callback of a request runs only when the status is no longer
\* pending and before callbacked_ is set; wait_callback() can return only when
\* the status is not pending, the callback is not running and the callback
\* step was executed (once).
C4_CallbackBeforeWait ==
    \A r \in Reqs :
        /\ callback_running(r) =>
              req[r].status_ # "pending" /\ ~req[r].callbacked_
        /\ wait_ready(req[r], TRUE) =>
              /\ req[r].status_ # "pending"
              /\ ~callback_running(r)
              /\ req[r].calls = 1

\* the user callback of one request is running while wait_callback() on
\* another request, whose user callback has returned, may return
C4_Witness ==
    \E r1, r2 \in Reqs :
        /\ callback_running(r1)
        /\ req[r2].breq_callback /\ wait_ready(req[r2], TRUE)

\* C5: a request hands its response out at most once; it has handed it out
\* exactly when its status is empty, and from then on take raises; a take
\* that returns finds the response present.
C5_TakeOnce ==
    \A r \in Reqs :
        /\ req[r].taken <= 1
        /\ req[r].taken = 1 <=> req[r].status_ = "empty"
        /\ req[r].taken = 1 => ~take_returns(req[r]) /\ take(req[r]) = req[r]
        /\ take_returns(req[r]) => req[r].response_.present
        /\ take_returns(req[r]) =>
              take(req[r]).status_ = "empty" /\ ~take_returns(take(req[r]))

\* the response was taken while the completion callback of the request runs
C5_Witness ==
    \E r \in Reqs : callback_running(r) /\ req[r].taken = 1

\* C6: on a cancelled, failed, timeout or empty request take raises and
\* leaves the request as it is, and no step gives the request another status;
\* a cancelled request holds no response and keeps none after any step.
C6_TakeUnavailable ==
    [][\A r \in Reqs :
          /\ req[r].status_ \in {"cancelled", "failed", "timeout", "empty"} =>
                /\ wait_ready(req[r], FALSE)
                /\ ~take_returns(req[r])
                /\ take(req[r]) = req[r]
                /\ req'[r].status_ = req[r].status_
          /\ req[r].status_ = "cancelled" =>
                /\ ~req[r].response_.present /\ req[r].taken = 0
                /\ ~req'[r].response_.present /\ ~take_returns(req'[r])]_vars

\* perform is about to read the message that the transfer of a request
\* succeeded, and the client has cancelled that request
C6_Witness ==
    \E t \in Threads, r \in Reqs :
        /\ pc[t] = "p2_info_read"
        /\ msgs # <<>> /\ Head(msgs) = <<r, CURLE_OK>>
        /\ req[r].status_ = "cancelled" /\ req[r].error_ = "Operation cancelled"

C8_WaitTerminalAsStated ==
    [][\A r \in Reqs :
          wait_ready(req[r], FALSE) =>
              /\ wait(req[r]) \in Terminal
              /\ req'[r].status_ = wait(req[r])]_vars

\* C8: wait() returns a status other than pending (done, failed, timeout,
\* cancelled, or empty when the response was taken before), and the status
\* read afterwards is that value, or empty where wait() returned done and the
\* response was taken in between.
C8_WaitNotPending ==
    [][\A r \in Reqs, wait_callback \in BOOLEAN :
          wait_ready(req[r], wait_callback) =>
              /\ wait(req[r]) \in Terminal \cup {"empty"}
              /\ \/ req'[r].status_ = wait(req[r])
                 \/ wait(req[r]) = "done" /\ req'[r].status_ = "empty"]_vars

\* wait_callback() may return on a request whose response was taken inside
\* its callback: it returns empty
C8_Witness ==
    \E r \in Reqs :
        /\ req[r].breq_callback
        /\ wait_ready(req[r], TRUE)
        /\ wait(req[r]) = "empty"

\* C9 as stated: once the status of a request is not pending, no step
\* writes its accumulated response headers or its response body buffer.
C9_NoWritesAfterPending ==
    [][\A r \in Reqs :
          req[r].status_ # "pending" =>
              /\ req'[r].response_headers_ = req[r].response_headers_
              /\ req'[r].response_content_ = req[r].response_content_]_vars

\* C10 as stated: progress is within [0,1] (0..Scale here) in every state,
\* whatever the progressor returns, and is 1 once the request reached done.
C10_ProgressInRange ==
    \A r \in Reqs :
        /\ 0 <= req[r].progress_ /\ req[r].progress_ <= Scale
        /\ req[r].status_ \in {"done", "empty"} => req[r].progress_ = Scale


\* the registry holds request r
in_registry(v, r) == \E i \in 1..Len(v) : v[i] = r

\* C11 as stated: a request that is cancelled before phase 1 attaches it
\* (also between the is_pending test and the attach) gets no transport handle
\* and is never appended to the active registry: no step attaches or
\* registers a request whose status is not pending.
C11_CancelledNeverAttached ==
    [][\A r \in Reqs :
          (req[r].status_ = "cancelled" /\ ~req[r].curlh_
              /\ ~in_registry(active_handles, r)) =>
                 ~req'[r].curlh_ /\ ~in_registry(active_handles', r)]_vars

\* positions of a thread inside the registry sweep of
\* cancel_all_pending_requests
InSweep == {"ca_lock", "ca_iter", "ca_callback", "ca_user"}

attach_failure_handled(t) ==
    /\ (pc[t] = "p1_catch" /\ pc'[t] = "p1_callback") =>
          /\ req'[sreq[t]].error_ # ""
          /\ ~req'[sreq[t]].curlh_
          /\ ~in_registry(active_handles', sreq[t])
          /\ mutex' = t
    /\ (pc[t] \in {"p1_callback", "p1_user"} /\ pc'[t] # pc[t]) =>
          /\ pc'[t] \in {"p1_user", "p1_dequeue"}
          /\ mutex' = t
          /\ pc'[t] = "p1_dequeue" =>
                /\ req'[sreq[t]].callbacked_ /\ req'[sreq[t]].calls = 1
                /\ ~in_registry(active_handles', sreq[t])

\* C13 as stated: when the attach throws, the request ends failed with a
\* non-empty error, without handle or registry entry, and is called back in
\* phase 1, which goes on.
C13_AttachThrowsAsStated ==
    [][\A t \in Threads :
          /\ attach_failure_handled(t)
          /\ (pc[t] = "p1_catch" /\ pc'[t] = "p1_callback") =>
                req'[sreq[t]].status_ = "failed"]_vars

\* C13: when the attach throws, the request ends failed if it was still
\* pending, and keeps the status cancelled if the client cancelled it after
\* the is_pending test; in both cases it has a non-empty error, no handle
\* and no registry entry, and is called back in phase 1, which goes on.
C13_AttachThrows ==
    [][\A t \in Threads :
          /\ attach_failure_handled(t)
          /\ (pc[t] = "p1_catch" /\ pc'[t] = "p1_callback") =>
                /\ req[sreq[t]].status_ \in {"pending", "cancelled"}
                /\ req[sreq[t]].status_ = "pending" =>
                      req'[sreq[t]].status_ = "failed"
                /\ req[sreq[t]].status_ = "cancelled" =>
                      /\ req'[sreq[t]].status_ = "cancelled"
                      /\ req'[sreq[t]].error_ = "Operation cancelled"]_vars

\* the attach threw in curl_multi_add_handle; the request is failed and
\* detached, phase 1 is about to call it back, and another request is queued
C13_Witness ==
    \E t \in Threads :
        /\ pc[t] = "p1_callback"
        /\ req[sreq[t]].status_ = "failed"
        /\ req[sreq[t]].error_ = "Unknown error"
        /\ req[sreq[t]].response_timeout_ > 0
        /\ ~req[sreq[t]].curlh_
        /\ new_handles # <<>>

\* the result codes of a transfer that a callback aborted
AbortCodes == {CURLE_READ_ERROR, CURLE_WRITE_ERROR, CURLE_ABORTED_BY_CALLBACK}

C15_CallbackThrows ==
    [][/\ \A r \in Reqs :
            /\ ~req[r].callbacked_ =>
                  \A exc \in BOOLEAN :
                      /\ get_callback_exception_ready(call_callback(req[r], exc))
                      /\ get_callback_exception(call_callback(req[r], exc)) = exc
                      /\ call_callback(req[r], exc).status_ = req[r].status_
            /\ get_callback_exception(req[r]) => req[r].breq_callback
       /\ \A t \in Threads :
            (pc[t] \in CallbackEntry \cup CallbackRunning
                /\ pc'[t] \notin CallbackEntry \cup CallbackRunning) =>
                  /\ pc'[t] = CallbackExit[pc[t]]
                  /\ mutex' = mutex
                  /\ get_callback_exception_ready(req'[sreq[t]])
                  /\ wait_ready(req'[sreq[t]], TRUE)
                  /\ req'[sreq[t]].status_ = req[sreq[t]].status_
                  /\ ~in_registry(active_handles', sreq[t])]_vars

\* the callback of one request threw, and the harvest pass of phase 3 is
\* running the callback of the next request
C15_Witness ==
    \E t \in Threads, r \in Reqs :
        /\ pc[t] = "p3_user" /\ sreq[t] # r
        /\ get_callback_exception_ready(req[r])
        /\ get_callback_exception(req[r])
        /\ req[r].status_ = "done"

C17_CallbacksTouchActivity ==
    [][activity' > activity =>
          \E r \in Reqs :
              /\ transfer[r] = "running"
              /\ req'[r].since_last_response = 0]_vars

\* the result codes fail() is called with
CurlCodes ==
    {CURLE_FAILED_INIT, CURLE_COULDNT_CONNECT, CURLE_WRITE_ERROR, CURLE_READ_ERROR,
     CURLE_OPERATION_TIMEDOUT, CURLE_ABORTED_BY_CALLBACK}

C19_GetError ==
    \A r \in Reqs :
        /\ get_error_ready(req[r]) <=> req[r].status_ # "pending"
        /\ get_error_ready(req[r]) =>
              /\ get_error(req[r]) = "" <=> req[r].status_ \in {"done", "empty"}
              /\ req[r].status_ \in {"failed", "timeout", "cancelled"} =>
                    get_error(req[r]) # ""

\* get_error() may return on a request whose response was taken: it returns
\* the empty string
C19_Witness ==
    \E r \in Reqs :
        /\ get_error_ready(req[r])
        /\ req[r].status_ = "empty"
        /\ get_error(req[r]) = ""

\* the lines of a sequence that follow its last status line ("HTTP/...")
RECURSIVE after_last_status_line(_)
after_last_status_line(lines) ==
    IF \A i \in 1..Len(lines) : lines[i] # "HTTP/" THEN lines
    ELSE after_last_status_line(Tail(lines))

\* the headers parsed from a sequence of "key: value" lines
parsed_headers(lines) ==
    {lines[i] : i \in {j \in 1..Len(lines) : lines[j] \in HeaderKeys}}

\* C20: whatever header lines the transport has delivered to a request, its
\* accumulated headers (the headers of its response, once it is done) are
\* the ones parsed from the lines after the last status line.
C20_LastResponseHeaders ==
    \A r \in Reqs :
        LET last == parsed_headers(after_last_status_line(req[r].header_lines))
        IN  /\ req[r].status_ \notin {"done", "empty"} =>
                  req[r].response_headers_ = last
            /\ req[r].response_.present => req[r].response_.headers = last

\* a request is done after a redirect: a header of the first response, a
\* second status line and a header of the second response were delivered
C20_Witness ==
    \E r \in Reqs :
        /\ req[r].status_ = "done"
        /\ req[r].header_lines = <<"Location", "HTTP/", "Content-Type">>
        /\ req[r].response_headers_ = {}
        /\ req[r].response_.headers = {"Content-Type"}

\* the part of a header line after the separator
rest_of(header) == substr_from(header, find(header, ":") + 1)

\* str without its leading tabs and spaces and its trailing CR, LF, tabs
\* and spaces
trimmed(str) ==
    LET f == find_first_not_of(str, {"\t", " "})
        l == find_last_not_of(str, {"\r", "\n", "\t", " "})
    IN  IF f = npos \/ l = npos THEN <<>> ELSE SubSeq(str, f + 1, l + 1)

\* C21 as stated: for a header line "key:rest" with a non-empty key, the
\* value stored for the key is rest without leading tabs and spaces and
\* without trailing CR, LF, tabs and spaces (empty if rest is only
\* whitespace), whatever the number of leading whitespace characters.
C21_HeaderValueTrimmed ==
    (out.fn = "header_callback_" /\ find(out.arg, ":") > 0) =>
        /\ out.val.do = "emplace"
        /\ out.val.key = substr(out.arg, 0, find(out.arg, ":"))
        /\ out.val.val = trimmed(rest_of(out.arg))

\* the query parameters that give a piece of the URL
emitted(ps) == {i \in 1..Len(ps) : ps[i].first # <<>> \/ ps[i].second # <<>>}

\* the piece of the URL the i-th parameter of ps gives
piece(u, ps, i) ==
    IF i \notin emitted(ps) THEN <<>>
    ELSE (IF find(u, "?") = npos /\ (\A j \in emitted(ps) : i <= j)
          THEN <<"?">> ELSE <<"&">>)
         \o (IF ps[i].first = <<>> THEN make_escaped_string(ps[i].second)
             ELSE IF ps[i].second = <<>> THEN make_escaped_string(ps[i].first)
             ELSE make_escaped_string(ps[i].first) \o <<"=">>
                    \o make_escaped_string(ps[i].second))

RECURSIVE pieces(_, _, _)
pieces(u, ps, n) ==
    IF n = 0 THEN <<>> ELSE pieces(u, ps, n - 1) \o piece(u, ps, n)

\* C22: the final URL is the builder URL followed by one piece per parameter,
\* in the order the parameter container gives them: "?" before the first
\* emitted parameter when the builder URL has no "?", "&" before every
\* other one; key=value, the bare escaped key when the value is empty, the
\* value as a bare key when the key is empty, and nothing (the "?" not
\* consumed) when both are empty.
C22_EscapedUrl ==
    out.fn = "enqueue" =>
        out.url_with_qparams_ =
            builder.url_ \o pieces(builder.url_, builder.qparams_, Len(builder.qparams_))

\* a URL without "?", a parameter with both empty, one with an empty key,
\* one with an empty value, in this order in the container
C22_Witness ==
    /\ out.fn = "enqueue"
    /\ builder.url_ = <<"u">>
    /\ builder.qparams_ = <<[first |-> <<>>, second |-> <<>>],
                            [first |-> <<>>, second |-> <<" ">>],
                            [first |-> <<"a">>, second |-> <<>>]>>
    /\ out.url_with_qparams_ = <<"u", "?", "%", "2", "0", "&", "a">>

\* C23 as stated: the query parameters appear in the final URL in the order
\* in which qparam added them to the builder, whatever their keys, and
\* parameters that share a key are all emitted.
C23_InsertionOrder ==
    out.fn = "enqueue" =>
        out.url_with_qparams_ =
            builder.url_ \o pieces(builder.url_, builder.added_qparams,
                                   Len(builder.added_qparams))

\* keys equal ignoring case
iequal(l, r) == ~icase_string_compare(l, r) /\ ~icase_string_compare(r, l)

\* the entry of the header list for a key and a value
entry(k, v) == k \o (IF v # <<>> THEN <<":", " ">> \o v ELSE <<";">>)

\* the value of the last call of header with a key equal to k ignoring case
last_set(added, k) ==
    LET I == {i \in 1..Len(added) : iequal(added[i].first, k)}
    IN  added[CHOOSE i \in I : \A j \in I : i >= j].second

\* the entries of hlist that are for the key k, in any of its spellings
entries_for(hlist, added, k) ==
    {j \in 1..Len(hlist) :
        \E i \in 1..Len(added) :
            /\ iequal(added[i].first, k)
            /\ hlist[j] = entry(added[i].first, last_set(added, k))}

\* C24 as stated: the header list has exactly one entry for every builder
\* header with a non-empty key ("key: value", or "key;" for an empty value),
\* holding the last value set for keys equal ignoring case, and no entry for
\* a header whose key is empty.
C24_HeaderList ==
    out.fn = "enqueue" =>
        LET added == builder.added_headers
        IN  /\ \A i \in 1..Len(added) :
                    added[i].first # <<>> =>
                        Cardinality(entries_for(out.hlist_, added, added[i].first)) = 1
            /\ \A j \in 1..Len(out.hlist_) :
                    \E i \in 1..Len(added) :
                        /\ added[i].first # <<>>
                        /\ j \in entries_for(out.hlist_, added, added[i].first)

\* the requests of seq are in the order they were sent, none twice
in_send_order(seq) == \A i, j \in 1..Len(seq) : i < j => seq[i] < seq[j]

\* the queue holds the requests sent last, in the order they were sent
queue_is_tail_of_sent ==
    new_handles = [i \in 1..Len(new_handles) |-> nsent - Len(new_handles) + i]

\* a step that changes the queue is one enqueue at the tail or one dequeue
\* of the head, which the dequeuing thread gets
queue_step ==
    new_handles' # new_handles =>
        \/ /\ nsent' = nsent + 1
           /\ new_handles' = Append(new_handles, nsent')
        \/ /\ new_handles # <<>>
           /\ new_handles' = Tail(new_handles)
           /\ nsent' = nsent
           /\ \E t \in Threads :
                 /\ sreq'[t] = Head(new_handles)
                 /\ pc[t] \in {"p1_dequeue", "cq_dequeue"}
                 /\ \A u \in Threads \ {t} : sreq'[u] = sreq[u]

\* C25: the submission queue is FIFO and loses or duplicates nothing: the
\* queue always holds exactly the requests sent and not yet dequeued, in the
\* order they were sent; it changes only by an enqueue at the tail or by a
\* dequeue of the head by phase 1 of perform or by
\* cancel_all_pending_requests, so that every request is dequeued once and
\* in send order, and the registry holds its requests in send order.
C25_QueueFifo ==
    /\ [](queue_is_tail_of_sent /\ in_send_order(active_handles))
    /\ [][queue_step]_vars

\* two requests were sent and dequeued, the first by perform, the second by
\* cancel_all_pending_requests on another thread
C25_Witness ==
    /\ nsent = 2
    /\ new_handles = <<>>
    /\ \E t, u \in Threads :
          /\ pc[t] = "p1_enqueue" /\ sreq[t] = 1
          /\ pc[u] = "cq_cancel" /\ sreq[u] = 2

\* blocked in wait_activity
Waiting == {"wa_queue_wait", "wa_multi_wait"}

\* C27 as stated: a thread blocked in wait_activity is woken, without the
\* timeout having to elapse, once a new request is in the submission queue,
\* whether it waits on the queue (empty registry) or in the transport's
\* activity wait (non-empty registry).
C27_WokenBySend ==
    \A t \in Threads :
        (pc[t] \in Waiting /\ new_handles # <<>>) ~> (pc[t] \notin Waiting)

\* a step that takes the request out of pending is a cancel, or a step of
\* a thread inside perform that gives the status of done or of fail
left_pending_by(s, s2) ==
    \/ s2 = cancel(s)
    \/ /\ \E t \in Threads : pc[t] \notin {"idle", "wa_return"} \cup Waiting
       /\ \/ \E info_ok \in BOOLEAN : s2.status_ = done(s, info_ok).status_
          \/ \E err \in CurlCodes : s2.status_ = fail(s, err).status_

\* C26: send takes only the queue's mutex: it can complete in every state,
\* whoever holds the engine mutex and wherever the engine threads are
\* (inside a phase of perform, blocked in wait_activity); it puts exactly
\* one new request at the tail of the queue and touches neither the engine
\* mutex nor the registry; the request is pending from then until a cancel
\* or the engine changes it.
C26_SendOnlyQueue ==
    /\ [](nsent < MaxReqs => ENABLED (\E rb \in Builders : send(rb, MaxReqs)))
    /\ [][nsent' # nsent =>
            /\ nsent' = nsent + 1
            /\ new_handles' = Append(new_handles, nsent')
            /\ req'[nsent'].status_ = "pending"
            /\ \A r \in Sent : req'[r] = req[r]
            /\ UNCHANGED <<mutex, pc, active_handles>>]_vars
    /\ [][\A r \in Sent :
            (req[r].status_ = "pending" /\ req'[r].status_ # "pending") =>
                left_pending_by(req[r], req'[r])]_vars

\* a request was sent while the performer thread was blocked in
\* curl_multi_wait, holding the engine mutex
C26_Witness ==
    /\ pc[Performer] = "wa_multi_wait"
    /\ mutex = Performer
    /\ active_handles = <<1>>
    /\ new_handles = <<2>>
    /\ req[2].status_ = "pending"

\* C29 as stated: a user completion callback runs on a thread that holds the
\* engine mutex, and so no two completion callbacks run at the same time,
\* whatever mix of perform, cancel and cancel_all_pending_requests the
\* threads execute.
C29_CallbacksUnderMutex ==
    /\ \A t \in Threads : pc[t] \in CallbackRunning => mutex = t
    /\ Cardinality({t \in Threads : pc[t] \in CallbackRunning}) <= 1

\* inside get_all_pending_requests
InGetAll == {"ga_copy_to", "ga_lock", "ga_insert", "ga_return"}

\* a step of get_all_pending_requests on thread t
get_all_step(t) == pc'[t] # pc[t] /\ (pc[t] \in InGetAll \/ pc'[t] \in InGetAll)

\* C30: get_all_pending_requests(dst), with no other engine operation in
\* progress, appends to dst the requests of the submission queue in queue
\* order and then the requests of the registry in registry order, and
\* changes neither the queue, nor the registry, nor the status or the
\* callback flag of any request.
C30_GetAllPending ==
    /\ [][\A t \in Threads :
            /\ get_all_step(t) =>
                  /\ UNCHANGED <<new_handles, active_handles>>
                  /\ \A r \in Reqs : /\ req'[r].status_ = req[r].status_
                                      /\ req'[r].callbacked_ = req[r].callbacked_
            /\ (get_all_step(t) /\ pc[t] = "ga_copy_to") =>
                  dst'[t] = dst[t] \o new_handles
            /\ (get_all_step(t) /\ pc[t] = "ga_insert") =>
                  dst'[t] = dst[t] \o active_handles]_vars
    /\ [](\A t \in Threads :
            pc[t] = "ga_return" =>
                \E given \in GivenDst, n \in 0..Len(new_handles) :
                    dst[t] = given \o SubSeq(new_handles, 1, n) \o active_handles)

\* the call is about to return a vector that had request 1 in it, with
\* request 2 from the queue and then request 1 from the registry
C30_Witness ==
    /\ pc[Performer] = "ga_return"
    /\ new_handles = <<2>>
    /\ active_handles = <<1>>
    /\ dst[Performer] = <<1, 2, 1>>

\* the positions inside the three phases of perform
Phase1 == {"p1_dequeue", "p1_enqueue", "p1_catch", "p1_callback", "p1_user"}
Phase2 == {"p2_multi_perform", "p2_info_read", "p2_timeout"}
Phase3 == {"p3_iter", "p3_callback", "p3_user"}

\* the positions inside a curl_state::with block
Locked ==
    Phase1 \cup Phase2 \cup Phase3
        \cup {"ca_iter", "ca_callback", "ca_user"}
        \cup {"wa_queue_wait", "wa_multi_wait", "wa_return"}
        \cup {"ga_insert"}

\* the registry or the state of the multi handle changes
engine_state_changes ==
    \/ active_handles' # active_handles
    \/ msgs' # msgs
    \/ transfer' # transfer
    \/ \E r \in Reqs : req'[r].curlh_ # req[r].curlh_

\* the phases of one perform call follow each other, the mutex released
\* between them
phases_in_order(t) ==
    /\ pc'[t] \in Phase1 => pc[t] \in Phase1 \cup {"idle"}
    /\ pc[t] \in Phase1 => pc'[t] \in Phase1 \cup {"p2_lock"}
    /\ pc'[t] = "p2_lock" => pc[t] \in Phase1 /\ mutex' = NoThread
    /\ pc'[t] \in Phase2 => pc[t] \in Phase2 \cup {"p2_lock"}
    /\ pc[t] \in Phase2 => pc'[t] \in Phase2 \cup {"p3_lock"}
    /\ pc'[t] = "p3_lock" => pc[t] \in Phase2 /\ mutex' = NoThread
    /\ pc'[t] \in Phase3 => pc[t] \in Phase3 \cup {"p3_lock"}
    /\ pc[t] \in Phase3 => pc'[t] \in Phase3 \cup {"idle"}

\* C28: a thread is inside a phase of perform, inside wait_activity or
\* inside the registry part of cancel_all_pending_requests or
\* get_all_pending_requests exactly when it holds the engine mutex, so at
\* most one thread is; the registry and the multi handle change only in a
\* step of the thread that holds the mutex; the phases of a perform call
\* run in the order 1, 2, 3 with the mutex released between them.
C28_EngineMutex ==
    /\ [](\A t \in Threads : pc[t] \in Locked <=> mutex = t)
    /\ [][engine_state_changes =>
            /\ mutex \in Threads
            /\ pc[mutex] \in Locked
            /\ \A u \in Threads \ {mutex} : pc'[u] = pc[u]]_vars
    /\ [][\A t \in Threads : pc'[t] # pc[t] => phases_in_order(t)]_vars

\* phase 3 of one thread runs between phases 1 and 2 of another
C28_Witness ==
    \E t, u \in Threads :
        /\ pc[t] = "p2_lock"
        /\ pc[u] \in Phase3
        /\ mutex = u
        /\ active_handles # <<>>

\* a timed wait is in progress or has just returned
timed_wait == out.fn \in {"wait_for", "wait_until"}

\* C31: wait_for and wait_until return as soon as the request has left
\* pending (for the wait_callback variants: and its callback step has run)
\* or when the deadline passes, whichever comes first; they return the
\* status current at that moment, which is pending only when the deadline
\* passed first; they change no field of the request.
C31_TimedWait ==
    /\ []((timed_wait /\ out.at = "blocked"
              /\ req[out.arg].status_ # "pending"
              /\ (out.wait_callback => req[out.arg].callbacked_))
            => ENABLED WaitForReady)
    /\ []((timed_wait /\ out.at = "returned") =>
            /\ ~out.deadline =>
                  /\ out.ret # "pending"
                  /\ out.wait_callback => req[out.arg].callbacked_
            /\ out.ret = "pending" => out.deadline
            /\ (out.deadline /\ ~out.wait_callback) => out.ret = "pending")
    /\ [][out' # out =>
            /\ req' = req
            /\ (out'.fn # "none" /\ out'.at = "returned") =>
                  out'.ret = req[out.arg].status_]_vars

\* a wait_callback_for that returned at its deadline with the status timeout, the
\* callback step not yet run
C31_Witness ==
    /\ out.fn = "wait_for"
    /\ out.at = "returned"
    /\ out.wait_callback
    /\ out.deadline
    /\ out.ret = "timeout"
    /\ ~req[out.arg].callbacked_

\* C32: once a request has left pending, done, fail (the idle-timeout
\* failure included) and cancel return false on it and leave it as it is;
\* its status only changes when take empties it, its error message never
\* changes, and its response only leaves by take; so a request cancelled by
\* the client stays cancelled with "Operation cancelled" when the transport
\* reports success afterwards.
C32_GuardRejects ==
    /\ [](\A r \in Sent :
            req[r].status_ # "pending" =>
                /\ \A info_ok \in BOOLEAN :
                      /\ done(req[r], info_ok) = req[r]
                      /\ ~done_result(req[r], info_ok)
                /\ \A err \in CurlCodes :
                      /\ fail(req[r], err) = req[r]
                      /\ ~fail_result(req[r])
                /\ cancel(req[r]) = req[r]
                /\ ~cancel_result(req[r]))
    /\ [][\A r \in Sent :
            req[r].status_ # "pending" =>
                /\ req'[r].status_ # req[r].status_ =>
                      req[r].status_ = "done" /\ req'[r] = take(req[r])
                /\ req'[r].error_ = req[r].error_
                /\ req'[r].response_ # req[r].response_ => req'[r] = take(req[r])
                /\ req'[r].breq_uploader = req[r].breq_uploader
                /\ req'[r].breq_downloader = req[r].breq_downloader]_vars

\* the transport reports success for a request the client has cancelled
C32_Witness ==
    \E t \in Threads, r \in Sent :
        /\ pc[t] = "p2_info_read"
        /\ msgs # <<>>
        /\ Head(msgs) = <<r, CURLE_OK>>
        /\ req[r].status_ = "cancelled"
        /\ req[r].error_ = "Operation cancelled"

\* the requests phase 3 has visited and removed, or is removing
harvested == {harvest.seen[i] : i \in 1..Len(harvest.seen)}
                \ {harvest.kept[i] : i \in 1..Len(harvest.kept)}

\* C33: phase 3 visits the requests of the registry it found in order, each
\* once, none skipped; a request no longer pending when visited is detached,
\* has its callback step executed and is removed; the requests that stay are
\* those that were pending when visited, in their original order.
C33_Harvest ==
    /\ [](\A t \in Threads :
            pc[t] \in Phase3 =>
                LET n == Len(harvest.seen)
                    removing == pc[t] \in {"p3_callback", "p3_user"}
                IN  /\ n <= Len(harvest.start)
                    /\ harvest.seen = SubSeq(harvest.start, 1, n)
                    /\ in_send_order(harvest.start)
                    /\ iter = Len(harvest.kept) + 1
                    /\ active_handles =
                          harvest.kept
                            \o (IF removing THEN <<sreq[t]>> ELSE <<>>)
                            \o SubSeq(harvest.start, n + 1, Len(harvest.start))
                    /\ removing => sreq[t] = harvest.seen[n]
                    /\ \A r \in harvested :
                          /\ req[r].status_ # "pending"
                          /\ ~req[r].curlh_
                          /\ (removing /\ r = sreq[t]) \/ req[r].callbacked_)
    /\ [][\A t \in Threads :
            (pc[t] = "p3_iter" /\ pc'[t] = "idle") =>
                /\ harvest.seen = harvest.start
                /\ active_handles' = harvest.kept]_vars

\* a registry of two requests, the first no longer pending: it has been
\* removed and the second, pending, has been visited and stays
C33_Witness ==
    \E t \in Threads :
        /\ pc[t] = "p3_iter"
        /\ harvest = [start |-> <<1, 2>>, seen |-> <<1, 2>>, kept |-> <<2>>]
        /\ active_handles = <<2>>

\* inside wait_activity
InWaitActivity == {"wa_queue_wait", "wa_multi_wait", "wa_return"}

\* C34: wait_activity chooses its wait by what it finds under the engine
\* mutex: the queue's condition variable when the registry is empty (left
\* when the queue is non-empty or at the timeout), the transport's activity
\* wait when the registry is non-empty and the queue empty, no wait when
\* both are non-empty; it holds the engine mutex throughout and changes
\* neither the queue, nor the registry, nor the status of any request.
C34_WaitActivity ==
    /\ [](\A t \in Threads :
            /\ pc[t] \in InWaitActivity => mutex = t
            /\ pc[t] = "wa_queue_wait" =>
                  /\ active_handles = <<>>
                  /\ (ENABLED WaNotified(t)) <=> (new_handles # <<>>)
                  /\ ENABLED WaQueueTimeout(t)
            /\ pc[t] = "wa_multi_wait" =>
                  active_handles # <<>> /\ ENABLED WaMultiWaitReturns(t))
    /\ [][\A t \in Threads :
            (pc'[t] # pc[t] /\ (pc[t] \in InWaitActivity \/ pc'[t] \in InWaitActivity)) =>
                /\ UNCHANGED <<new_handles, active_handles>>
                /\ \A r \in Reqs : req'[r].status_ = req[r].status_
                /\ pc[t] = "idle" =>
                      /\ mutex = NoThread /\ mutex' = t
                      /\ pc'[t] = IF active_handles = <<>> THEN "wa_queue_wait"
                                  ELSE IF new_handles = <<>> THEN "wa_multi_wait"
                                  ELSE "wa_return"
                /\ pc[t] \in {"wa_queue_wait", "wa_multi_wait"} =>
                      pc'[t] = "wa_return" /\ mutex' = t
                /\ pc[t] = "wa_return" => pc'[t] = "idle" /\ mutex' = NoThread]_vars

\* wait_activity found a request in the registry and another in the queue
\* and is returning without a wait
C34_Witness ==
    /\ pc[Performer] = "wa_return"
    /\ mutex = Performer
    /\ active_handles = <<1>>
    /\ new_handles = <<2>>
    /\ req[1].status_ = "pending"
    /\ req[2].status_ = "cancelled"

\* a step in which a client's cancel() takes request r out of pending
client_cancels(r) ==
    /\ pc' = pc
    /\ req[r].status_ = "pending"
    /\ req'[r].status_ = "cancelled"
    /\ req'[r].error_ = "Operation cancelled"

\* a step of a thread inside perform or cancel_all_pending_requests
engine_step == \E t \in Threads : pc[t] # "idle" /\ pc'[t] # pc[t]

\* C35: a client's cancel() changes only the status and the error message of
\* its request: no callback step, no detach, no removal from the queue or the
\* registry; the detach and the callback step happen only in steps of perform
\* or cancel_all_pending_requests, so wait_callback() on a cancelled request
\* is ready only after such a step has set the callback flag.
C35_CancelOnly ==
    /\ [][\A r \in Sent :
            client_cancels(r) =>
                /\ req'[r] = [req[r] EXCEPT !.status_ = "cancelled",
                                            !.error_ = "Operation cancelled"]
                /\ \A q \in Reqs \ {r} : req'[q] = req[q]
                /\ UNCHANGED <<new_handles, active_handles, transfer, msgs, mutex, sreq>>]_vars
    /\ [][\A r \in Sent :
            /\ (req[r].curlh_ /\ ~req'[r].curlh_) => engine_step
            /\ (~req[r].callbacked_ /\ req'[r].callbacked_) =>
                  \E t \in Threads :
                      /\ pc[t] \in CallbackEntry \cup CallbackRunning
                      /\ sreq[t] = r
                      /\ pc'[t] # pc[t]
            /\ (~wait_ready(req[r], TRUE) /\ wait_ready(req'[r], TRUE)
                    /\ req'[r].status_ = "cancelled") => engine_step]_vars

\* a request the client has cancelled is still attached and in the registry,
\* its callback step not run, while no thread is in the engine
C35_Witness ==
    /\ \A t \in Threads : pc[t] = "idle"
    /\ active_handles = <<1>>
    /\ req[1].status_ = "cancelled"
    /\ req[1].error_ = "Operation cancelled"
    /\ req[1].curlh_
    /\ ~req[1].callbacked_
    /\ ~wait_ready(req[1], TRUE)

\* the requests of a sequence
elements(seq) == {seq[i] : i \in 1..Len(seq)}

\* no request is twice in the sequence
no_duplicates(seq) == \A i, j \in 1..Len(seq) : seq[i] = seq[j] => i = j

\* C36: whenever the engine mutex is free, a request holds an easy handle
\* exactly when it is in the registry (so requests in the queue, requests
\* whose attach failed and requests harvested or swept hold none); no
\* request is twice in the registry, and none is in the queue and in the
\* registry at the same time.
C36_HandleIffRegistered ==
    /\ mutex = NoThread =>
          \A r \in Reqs : req[r].curlh_ <=> r \in elements(active_handles)
    /\ no_duplicates(active_handles)
    /\ elements(new_handles) \cap elements(active_handles) = {}

\* the mutex is free; request 1 failed to attach and holds no handle,
\* request 2 is attached and in the registry
C36_Witness ==
    /\ mutex = NoThread
    /\ req[1].status_ = "failed"
    /\ ~req[1].curlh_
    /\ req[1].callbacked_
    /\ active_handles = <<2>>
    /\ req[2].curlh_

C38_CallbackUnlocked ==
    /\ [](\A t \in Threads :
            pc[t] \in CallbackRunning =>
                /\ req[sreq[t]].status_ \in Terminal \cup {"empty"}
                /\ ~req[sreq[t]].callbacked_
                /\ get_error_ready(req[sreq[t]])
                /\ ENABLED Take(sreq[t])
                /\ ENABLED Cancel(sreq[t]))
    /\ [][\A t \in Threads :
            pc[t] \in CallbackRunning =>
                /\ req'[sreq[t]].status_ # req[sreq[t]].status_ =>
                      /\ req[sreq[t]].status_ = "done"
                      /\ req'[sreq[t]] = take(req[sreq[t]])
                      /\ pc' = pc
                /\ pc'[t] # pc[t] =>
                      /\ req'[sreq[t]].status_ = req[sreq[t]].status_
                      /\ wait_ready(req'[sreq[t]], TRUE)
                      /\ wait(req'[sreq[t]]) = req[sreq[t]].status_]_vars

\* a callback is running on a request whose response was taken
C38_Witness ==
    \E t \in Threads :
        /\ pc[t] \in CallbackRunning
        /\ sreq[t] = 1
        /\ req[1].breq_callback
        /\ req[1].status_ = "empty"

\* the lines delivered after the last status line
current_response(lines) ==
    LET S == {i \in 1..Len(lines) : header_line(lines[i]).do = "clear"}
        last == IF S = {} THEN 0 ELSE CHOOSE i \in S : \A j \in S : i >= j
    IN  SubSeq(lines, last + 1, Len(lines))

\* the first line of cur whose key equals k ignoring case
first_line(cur, k) ==
    LET I == {i \in 1..Len(cur) : /\ header_line(cur[i]).do = "emplace"
                                    /\ iequal(header_line(cur[i]).key, k)}
    IN  header_line(cur[CHOOSE i \in I : \A j \in I : i <= j])

\* C39: the accumulated response headers hold, for every key of a line of
\* the current response, exactly one pair with a key equal ignoring case, and
\* that pair is the key and the value the first such line gave; they hold no
\* other pair.
C39_FirstLineWins ==
    out.fn = "response" =>
        LET cur == current_response(out.lines)
            keyed == {i \in 1..Len(cur) : header_line(cur[i]).do = "emplace"}
        IN  /\ \A i \in keyed :
                  LET k == header_line(cur[i]).key
                      E == {j \in 1..Len(out.headers) : iequal(out.headers[j].first, k)}
                  IN  /\ Cardinality(E) = 1
                      /\ \A j \in E :
                            /\ out.headers[j].first = first_line(cur, k).key
                            /\ out.headers[j].second = first_line(cur, k).val
            /\ \A j \in 1..Len(out.headers) :
                  \E i \in keyed : iequal(out.headers[j].first, header_line(cur[i]).key)

\* "k: v" and then "K: w" in one response: the pair k, v is kept
C39_Witness ==
    /\ out.fn = "response"
    /\ out.lines = << <<"H", "T", "T", "P", "/">>,
                      <<"k", ":", " ", "v", "\r", "\n">>,
                      <<"K", ":", " ", "w", "\r", "\n">> >>
    /\ out.headers = << [first |-> <<"k">>, second |-> <<"v">>] >>

\* how many times r is listed in seq
count(seq, r) == Cardinality({i \in 1..Len(seq) : seq[i] = r})

\* C40 as stated: when get_all_pending_requests() returns while another
\* thread runs perform, no request is listed twice in the vector.
C40_ListedOnce ==
    pc[Reader] = "ga_return" =>
        \A r \in Reqs : count(dst[Reader], r) <= 1

====
